---- MODULE Spec2Model ----
(***************************************************************************)
(* Otto overlay: the zustand session store (src/src/store/otto.ts), the    *)
(* Tauri event reconciler and the window-height computation                *)
(* (src/src/hooks/useTauriEvents.ts), and the UI callbacks that mutate the *)
(* store (src/src/types/index.ts, src/src/components/Overlay.tsx).         *)
(*                                                                         *)
(* Conventions.  A nullable or optional JavaScript value is a sequence of  *)
(* length at most one: None is null/undefined/absent, Some(v) a value.     *)
(* A JavaScript object used as a map is a function on its key set.  Array  *)
(* positions are 0-based in the source and 1-based in sequences; At        *)
(* converts.  The store is one record, as zustand keeps one state object; *)
(* every store operation is an operator from store to store.               *)
(***************************************************************************)
EXTENDS Integers, Sequences, FiniteSets, TLC

VARIABLES
    store,      \* the zustand state object (useOttoStore.getState())
    timers,     \* pending setTimeout(() => updateWindowHeight(), 10) callbacks
    window,     \* the size last applied by window.setSize
    inflight,   \* execute_plan invocations started by plan_ready, not settled
    hist        \* history: the last step taken, whether it resized the window,
                \* the ids of the prompts delivered, one observed resize

vars == <<store, timers, window, inflight, hist>>

(***************************************************************************)
(* Bounds of the model                                                     *)
(***************************************************************************)
MaxTimers == 2      \* deferred recomputations pending at once
MaxInflight == 1    \* execute_plan invocations pending at once
MaxSteps == 3       \* steps of a legacy plan
MaxStepIndex == 1   \* largest stepIndex of step_started and step_completed
MaxPlanSteps == 2   \* steps of a v2 plan
MaxGoals == 2       \* goals of a v1 session
MaxCalls == 2       \* distinct LLM call ids
MaxAttempts == 2    \* max_attempts of a goal

(***************************************************************************)
(* Optional values and maps                                                *)
(***************************************************************************)
None == <<>>
Some(v) == <<v>>
Get(o) == o[1]

\* JavaScript truthiness of an optional string: defined and not "".
Truthy(o) == o # None /\ Get(o) # ""

EmptyMap == <<>>
Put(m, k, v) == [x \in (DOMAIN m) \cup {k} |-> IF x = k THEN v ELSE m[x]]

\* arr[i] for a 0-based index i: undefined outside the array.
At(arr, i) == IF i \in 0..(Len(arr) - 1) THEN Some(arr[i + 1]) ELSE None

(***************************************************************************)
(* The store: initial state and operations (store/otto.ts)                 *)
(***************************************************************************)
InitStore ==
    [ state |-> "idle",
      command |-> "",
      plan |-> None,
      currentStepIndex |-> 0,
      error |-> None,
      debugLogs |-> EmptyMap,
      agentSession |-> None,
      useAgentMode |-> TRUE,
      goalPipelineStates |-> EmptyMap,
      decompositionInfo |-> None,
      agentSessionV2 |-> None,
      useAgentV2 |-> TRUE,
      llmCalls |-> EmptyMap,
      selectedLlmCall |-> None ]

\* zustand set(partial): a shallow merge of partial into the state object.
Set(s, partial) ==
    [f \in DOMAIN s |-> IF f \in DOMAIN partial THEN partial[f] ELSE s[f]]

setCommand(s, cmd) == Set(s, [command |-> cmd])

setPlan(s, plan) == Set(s, [plan |-> Some(plan)])

setStepIndex(s, idx) == Set(s, [currentStepIndex |-> idx])

setDebugLog(s, idx, info) == Set(s, [debugLogs |-> Put(s.debugLogs, idx, info)])

setState(s, st) == Set(s, [state |-> st])

\* setError that adds the message to the one already shown.
setErrorAppend(s, err) ==
    Set(s, [ error |-> IF s.error = None THEN Some(err)
                       ELSE Some(Get(s.error) \o "; " \o err),
             state |-> "error" ])

setError(s, err) == Set(s, [error |-> Some(err), state |-> "error"])

\* reset of the store before the v2 session and the LLM trace were added.
resetBeforeV2(s) ==
    Set(s, [ state |-> "idle",
             command |-> "",
             plan |-> None,
             currentStepIndex |-> 0,
             error |-> None,
             debugLogs |-> EmptyMap,
             agentSession |-> None,
             goalPipelineStates |-> EmptyMap,
             decompositionInfo |-> None ])

reset(s) ==
    Set(s, [ state |-> "idle",
             command |-> "",
             plan |-> None,
             currentStepIndex |-> 0,
             error |-> None,
             debugLogs |-> EmptyMap,
             agentSession |-> None,
             goalPipelineStates |-> EmptyMap,
             decompositionInfo |-> None,
             agentSessionV2 |-> None,
             llmCalls |-> EmptyMap,
             selectedLlmCall |-> None ])

\* setAgentSession that starts the session without decomposition info.
setAgentSessionFresh(s, session) ==
    Set(s, [agentSession |-> Some(session), decompositionInfo |-> None])

setAgentSession(s, session) == Set(s, [agentSession |-> Some(session)])

setUseAgentMode(s, use) == Set(s, [useAgentMode |-> use])

\* A pipeline entry holds every field of GoalPipelineState; None is a field
\* that is absent or holds undefined (the code reads both the same way).
PipelineFields ==
    { "step", "observation", "actionType", "actionParams", "actionRationale",
      "actionResult", "actionError", "verification", "verified" }

NoEntry == [f \in PipelineFields |-> None]

\* { ...existing, ...updates }: a key of updates wins, also when it holds
\* undefined; spreading an undefined existing entry adds nothing.
Merge(existing, updates) ==
    [f \in PipelineFields |->
        IF f \in DOMAIN updates THEN updates[f] ELSE existing[f]]

EntryOf(s, goalId) ==
    IF goalId \in DOMAIN s.goalPipelineStates
    THEN s.goalPipelineStates[goalId]
    ELSE NoEntry

\* updateGoalPipeline without `...state.goalPipelineStates[goalId]`.
updateGoalPipelineReplace(s, goalId, updates) ==
    Set(s, [goalPipelineStates |->
              Put(s.goalPipelineStates, goalId, Merge(NoEntry, updates))])

updateGoalPipeline(s, goalId, updates) ==
    Set(s, [goalPipelineStates |->
              Put(s.goalPipelineStates, goalId, Merge(EntryOf(s, goalId), updates))])

setDecompositionInfo(s, info) == Set(s, [decompositionInfo |-> Some(info)])

setAgentSessionV2(s, session) == Set(s, [agentSessionV2 |-> Some(session)])

setUseAgentV2(s, use) == Set(s, [useAgentV2 |-> use])

\* addLlmPrompt that keeps the newest call only.
addLlmPromptKeepLatest(s, event) ==
    Set(s, [llmCalls |-> Put(EmptyMap, event.call_id,
                             [ id |-> event.call_id,
                               type |-> event.call_type,
                               model |-> event.model,
                               prompt |-> event.prompt,
                               timestamp |-> event.timestamp,
                               status |-> "pending",
                               raw_response |-> None,
                               parsed_result |-> None,
                               duration_ms |-> None,
                               success |-> None,
                               error |-> None ])])

addLlmPrompt(s, event) ==
    LET entry == [ id |-> event.call_id,
                   type |-> event.call_type,
                   model |-> event.model,
                   prompt |-> event.prompt,
                   timestamp |-> event.timestamp,
                   status |-> "pending",
                   raw_response |-> None,
                   parsed_result |-> None,
                   duration_ms |-> None,
                   success |-> None,
                   error |-> None ]
    IN  Set(s, [llmCalls |-> Put(s.llmCalls, event.call_id, entry)])

\* addLlmResponse without the `if (!existing) return state` guard.
addLlmResponseUpsert(s, event) ==
    LET updated == [ id |-> event.call_id,
                     type |-> "action_decision",
                     model |-> "",
                     prompt |-> "",
                     timestamp |-> 0,
                     status |-> IF event.success THEN "success" ELSE "error",
                     raw_response |-> Some(event.raw_response),
                     parsed_result |-> event.parsed_result,
                     duration_ms |-> Some(event.duration_ms),
                     success |-> Some(event.success),
                     error |-> event.error ]
    IN  Set(s, [llmCalls |-> Put(s.llmCalls, event.call_id, updated)])

\* addLlmResponse with `error: event.error ?? existing.error`.
addLlmResponseKeepsError(s, event) ==
    IF event.call_id \notin DOMAIN s.llmCalls
    THEN s
    ELSE LET existing == s.llmCalls[event.call_id]
             updated == [existing EXCEPT
                            !.raw_response = Some(event.raw_response),
                            !.parsed_result = event.parsed_result,
                            !.duration_ms = Some(event.duration_ms),
                            !.success = Some(event.success),
                            !.error = IF event.error # None THEN event.error ELSE @,
                            !.status = IF event.success THEN "success" ELSE "error"]
         IN  Set(s, [llmCalls |-> Put(s.llmCalls, event.call_id, updated)])

addLlmResponse(s, event) ==
    IF event.call_id \notin DOMAIN s.llmCalls
    THEN s
    ELSE LET existing == s.llmCalls[event.call_id]
             updated == [existing EXCEPT
                            !.raw_response = Some(event.raw_response),
                            !.parsed_result = event.parsed_result,
                            !.duration_ms = Some(event.duration_ms),
                            !.success = Some(event.success),
                            !.error = event.error,
                            !.status = IF event.success THEN "success" ELSE "error"]
         IN  Set(s, [llmCalls |-> Put(s.llmCalls, event.call_id, updated)])

selectLlmCall(s, callId) == Set(s, [selectedLlmCall |-> callId])

\* clearLlmCalls as set({ llmCalls: {} }).
clearLlmCallsKeepsSelection(s) == Set(s, [llmCalls |-> EmptyMap])

clearLlmCalls(s) == Set(s, [llmCalls |-> EmptyMap, selectedLlmCall |-> None])

(***************************************************************************)
(* The window size (useTauriEvents.ts, updateWindowHeight)                 *)
(***************************************************************************)
INPUT_HEIGHT == 88
STEP_HEIGHT == 48
WINDOW_WIDTH == 680
STEP_COUNTER_HEIGHT == 24
DECOMPOSITION_HEIGHT == 56
PIPELINE_HEADER_HEIGHT == 48
PIPELINE_ROW_HEIGHT == 22
PIPELINE_FOOTER_HEIGHT == 20

\* agentSession?.goals || []
goalsOf(s) == IF s.agentSession = None THEN <<>> ELSE Get(s.agentSession).goals

\* agentSessionV2?.plan?.steps || []
planStepsOf(s) ==
    IF s.agentSessionV2 = None THEN <<>>
    ELSE IF Get(s.agentSessionV2).plan = None THEN <<>>
    ELSE Get(Get(s.agentSessionV2).plan).steps

\* plan?.steps || []
legacyStepsOf(s) == IF s.plan = None THEN <<>> ELSE Get(s.plan).steps

\* goalHeight that shows the pipeline of every goal that has an entry.
goalHeightAnyStatus(s, idx) ==
    LET goal == goalsOf(s)[idx + 1]
        pipeline == EntryOf(s, goal.id)
        pipelineRows ==
            1 + (IF Truthy(pipeline.observation) THEN 1 ELSE 0)
              + (IF Truthy(pipeline.actionType) THEN 1 ELSE 0)
              + (IF Truthy(pipeline.actionResult) THEN 1 ELSE 0)
              + (IF Truthy(pipeline.verification) THEN 1 ELSE 0)
    IN  IF goal.id \in DOMAIN s.goalPipelineStates
        THEN PIPELINE_HEADER_HEIGHT + pipelineRows * PIPELINE_ROW_HEIGHT
                 + PIPELINE_FOOTER_HEIGHT
        ELSE STEP_HEIGHT

\* The height one goal adds in the v1 branch; idx is the 0-based position.
goalHeight(s, idx) ==
    LET goal == goalsOf(s)[idx + 1]
        hasPipeline == goal.id \in DOMAIN s.goalPipelineStates
        pipeline == EntryOf(s, goal.id)
        currentGoalIndex == Get(s.agentSession).current_goal_index
        isCurrent == idx = currentGoalIndex /\ goal.status = "in_progress"
        isCompleted == goal.status = "completed"
        isFailed == goal.status = "failed"
        shouldShowPipeline == hasPipeline /\ (isCurrent \/ isCompleted \/ isFailed)
        pipelineRows ==
            1 + (IF Truthy(pipeline.observation) THEN 1 ELSE 0)
              + (IF Truthy(pipeline.actionType) THEN 1 ELSE 0)
              + (IF Truthy(pipeline.actionResult) THEN 1 ELSE 0)
              + (IF Truthy(pipeline.verification) THEN 1 ELSE 0)
    IN  IF shouldShowPipeline
        THEN PIPELINE_HEADER_HEIGHT + pipelineRows * PIPELINE_ROW_HEIGHT
                 + PIPELINE_FOOTER_HEIGHT
        ELSE STEP_HEIGHT

RECURSIVE goalsHeight(_, _)
goalsHeight(s, n) ==
    IF n = 0 THEN 0 ELSE goalsHeight(s, n - 1) + goalHeight(s, n - 1)

\* The height updateWindowHeight passes to setSize for the snapshot s.
windowHeight(s) ==
    LET goals == goalsOf(s)
        planSteps == planStepsOf(s)
        legacySteps == legacyStepsOf(s)
    IN  IF s.useAgentV2 /\ s.agentSessionV2 # None
        THEN INPUT_HEIGHT + Len(planSteps) * STEP_HEIGHT
               + (IF Get(s.agentSessionV2).state \in {"done", "failed"}
                  THEN STEP_HEIGHT ELSE 0)
               + (IF Get(s.agentSessionV2).state = "executing"
                  THEN STEP_COUNTER_HEIGHT ELSE 0)
        ELSE IF s.state = "planning"
        THEN INPUT_HEIGHT + STEP_HEIGHT
        ELSE IF s.state = "error" /\ ~s.useAgentMode
        THEN INPUT_HEIGHT + STEP_HEIGHT
        ELSE IF s.state \in {"executing", "done"} /\ ~s.useAgentMode
        THEN INPUT_HEIGHT + Len(legacySteps) * STEP_HEIGHT
               + (IF s.state = "done" THEN STEP_HEIGHT ELSE 0)
        ELSE IF s.useAgentMode /\ Len(goals) > 0
        THEN INPUT_HEIGHT
               + (IF s.decompositionInfo # None THEN DECOMPOSITION_HEIGHT ELSE 0)
               + goalsHeight(s, Len(goals))
               + (IF Get(s.agentSession).state \in {"complete", "error"}
                  THEN STEP_HEIGHT ELSE 0)
        ELSE INPUT_HEIGHT

\* new LogicalSize(680, height)
windowSize(s) == [width |-> WINDOW_WIDTH, height |-> windowHeight(s)]

(***************************************************************************)
(* The listeners' store effects (useTauriEvents.ts, useTauriEvents)        *)
(***************************************************************************)
\* plan_ready that loads the plan and leaves the run-state for later events.
plan_readyPlanOnly(s, payload) == setPlan(s, payload)

plan_ready(s, payload) == setState(setPlan(s, payload), "executing")

step_started(s, payload) ==
    setDebugLog(setStepIndex(s, payload.stepIndex), payload.stepIndex, payload.debug)

\* The message with the 0-based index.
stepFailedMessageZeroBased(stepIndex) == "Step " \o ToString(stepIndex) \o " failed"

\* `Step ${stepIndex + 1} failed`
stepFailedMessage(stepIndex) == "Step " \o ToString(stepIndex + 1) \o " failed"

step_completed(s, payload) ==
    IF ~payload.success THEN setError(s, stepFailedMessage(payload.stepIndex)) ELSE s

\* execution_done with message ?? 'Execution failed': an empty message stays.
execution_doneNullish(s, payload) ==
    IF payload.success
    THEN setState(s, "done")
    ELSE setError(s, IF payload.message # None
                     THEN Get(payload.message) ELSE "Execution failed")

\* message || 'Execution failed'
execution_done(s, payload) ==
    IF payload.success
    THEN setState(s, "done")
    ELSE setError(s, IF Truthy(payload.message)
                     THEN Get(payload.message) ELSE "Execution failed")

error(s, payload) == setError(s, payload.message)

\* The id of the goal at the v1 cursor, or None.  A goal id that is the
\* empty string fails the `if (goalId)` tests of the listeners.
getCurrentGoalId(s) ==
    IF s.agentSession = None THEN None
    ELSE LET session == Get(s.agentSession)
             goal == At(session.goals, session.current_goal_index)
         IN  IF goal = None THEN None ELSE Some(Get(goal).id)

\* session?.goals[goalIndex]?.id
goalIdAt(s, goalIndex) ==
    IF s.agentSession = None THEN None
    ELSE LET goal == At(Get(s.agentSession).goals, goalIndex)
         IN  IF goal = None THEN None ELSE Some(Get(goal).id)

decomposition(s, payload) == setDecompositionInfo(s, payload)

\* The format told by the store's v2 switch, not by the payload.
isV2PayloadBySwitch(payload) == store.useAgentV2

\* The v1 listener showing attempts 1-based: it stores every goal with
\* attempts + 1.
agent_session_v1OneBasedAttempts(s, v1Session) ==
    LET shown == [v1Session EXCEPT !.goals =
                     [i \in DOMAIN v1Session.goals |->
                         IF "attempts" \in DOMAIN v1Session.goals[i]
                         THEN [v1Session.goals[i] EXCEPT !.attempts = @ + 1]
                         ELSE v1Session.goals[i]]]
        s1 == setAgentSession(s, shown)
        goal == At(v1Session.goals, v1Session.current_goal_index)
        step == IF v1Session.state \in {"observing", "thinking", "acting", "verifying"}
                THEN Some(v1Session.state)
                ELSE IF v1Session.state = "complete" THEN Some("done") ELSE None
        s2 == IF goal # None /\ step # None
              THEN updateGoalPipeline(s1, Get(goal).id, [step |-> step])
              ELSE s1
    IN  IF v1Session.state = "complete" THEN setState(s2, "done")
        ELSE IF v1Session.state = "error" THEN setState(s2, "error")
        ELSE s2

\* agent_session_v2 that takes a v2 session in state idle as a return to idle.
agent_session_v2IdleToo(s, v2Session) ==
    setState(setAgentSessionV2(s, v2Session),
             IF v2Session.state = "done" THEN "done"
             ELSE IF v2Session.state = "failed" THEN "error"
             ELSE v2Session.state)

\* 'task' in payload && !('original_command' in payload)
isV2Payload(payload) ==
    "task" \in DOMAIN payload /\ "original_command" \notin DOMAIN payload

\* stateToStep[v1Session.state]
\* stateToStep without the complete -> done row: a status is its own step.
stateToStepByName(st) ==
    IF st \in {"observing", "thinking", "acting", "verifying", "complete"}
    THEN Some(st)
    ELSE None

stateToStep(st) ==
    IF st \in {"observing", "thinking", "acting", "verifying"} THEN Some(st)
    ELSE IF st = "complete" THEN Some("done")
    ELSE None

agent_session_v2(s, v2Session) ==
    LET s1 == setAgentSessionV2(s, v2Session)
    IN  IF v2Session.state = "done" THEN setState(s1, "done")
        ELSE IF v2Session.state = "failed" THEN setState(s1, "error")
        ELSE IF v2Session.state = "executing" THEN setState(s1, "executing")
        ELSE IF v2Session.state = "planning" THEN setState(s1, "planning")
        ELSE s1

agent_session_v1(s, v1Session) ==
    LET s1 == setAgentSession(s, v1Session)
        goal == At(v1Session.goals, v1Session.current_goal_index)
        goalId == IF goal = None THEN None ELSE Some(Get(goal).id)
        step == stateToStep(v1Session.state)
        s2 == IF Truthy(goalId) /\ step # None
              THEN updateGoalPipeline(s1, Get(goalId), [step |-> step])
              ELSE s1
    IN  IF v1Session.state = "complete" THEN setState(s2, "done")
        ELSE IF v1Session.state = "error" THEN setState(s2, "error")
        ELSE s2

agent_session(s, payload) ==
    IF isV2Payload(payload)
    THEN agent_session_v2(s, payload)
    ELSE agent_session_v1(s, payload)

\* goal_started that sets the step and lists no other field.
goal_startedStepOnly(s, payload) ==
    LET goalId == goalIdAt(s, payload.goalIndex)
    IN  IF Truthy(goalId)
        THEN updateGoalPipeline(s, Get(goalId), [step |-> Some("observing")])
        ELSE s

goal_started(s, payload) ==
    LET goalId == goalIdAt(s, payload.goalIndex)
    IN  IF Truthy(goalId)
        THEN updateGoalPipeline(s, Get(goalId),
                 [ step |-> Some("observing"),
                   observation |-> None,
                   actionType |-> None,
                   actionParams |-> None,
                   actionRationale |-> None,
                   actionResult |-> None,
                   actionError |-> None,
                   verification |-> None,
                   verified |-> None ])
        ELSE s

goal_completed(s, payload) ==
    LET goalId == goalIdAt(s, payload.goalIndex)
    IN  IF Truthy(goalId)
        THEN updateGoalPipeline(s, Get(goalId), [step |-> Some("done")])
        ELSE s

observation(s, payload) ==
    LET goalId == getCurrentGoalId(s)
    IN  IF Truthy(goalId)
        THEN updateGoalPipeline(s, Get(goalId),
                 [ step |-> Some("thinking"),
                   observation |-> Some(payload.description) ])
        ELSE s

\* modifiers.join('+')
RECURSIVE joinPlus(_)
joinPlus(parts) ==
    IF Len(parts) = 0 THEN ""
    ELSE IF Len(parts) = 1 THEN parts[1]
    ELSE parts[1] \o "+" \o joinPlus(Tail(parts))

\* formatParams with the tests in the opposite order.
formatParamsLastTagFirst(params) ==
    IF "element" \in DOMAIN params THEN params.element
    ELSE IF "ms" \in DOMAIN params THEN ToString(params.ms) \o "ms"
    ELSE IF "x" \in DOMAIN params /\ "y" \in DOMAIN params
    THEN "(" \o ToString(params.x) \o ", " \o ToString(params.y) \o ")"
    ELSE IF "key" \in DOMAIN params
    THEN LET mods == IF "modifiers" \in DOMAIN params
                     THEN joinPlus(params.modifiers) ELSE ""
         IN  IF mods # "" THEN mods \o "+" \o params.key ELSE params.key
    ELSE IF "text" \in DOMAIN params THEN "\"" \o params.text \o "\""
    ELSE IF "app_name" \in DOMAIN params THEN params.app_name
    ELSE ""

\* The display text of an action's parameters: the first tag that matches.
formatParams(params) ==
    IF "app_name" \in DOMAIN params THEN params.app_name
    ELSE IF "text" \in DOMAIN params THEN "\"" \o params.text \o "\""
    ELSE IF "key" \in DOMAIN params
    THEN LET mods == IF "modifiers" \in DOMAIN params
                     THEN joinPlus(params.modifiers) ELSE ""
         IN  IF mods # "" THEN mods \o "+" \o params.key ELSE params.key
    ELSE IF "x" \in DOMAIN params /\ "y" \in DOMAIN params
    THEN "(" \o ToString(params.x) \o ", " \o ToString(params.y) \o ")"
    ELSE IF "ms" \in DOMAIN params THEN ToString(params.ms) \o "ms"
    ELSE IF "element" \in DOMAIN params THEN params.element
    ELSE ""

action_planned(s, payload) ==
    LET goalId == getCurrentGoalId(s)
    IN  IF Truthy(goalId)
        THEN updateGoalPipeline(s, Get(goalId),
                 [ step |-> Some("acting"),
                   actionType |-> Some(payload.action_type),
                   actionParams |-> Some(formatParams(payload.params)),
                   actionRationale |-> Some(payload.rationale) ])
        ELSE s

action_completed(s, payload) ==
    LET goalId == getCurrentGoalId(s)
    IN  IF Truthy(goalId)
        THEN updateGoalPipeline(s, Get(goalId),
                 [ step |-> Some("verifying"),
                   actionResult |-> Some(IF payload.success THEN "success" ELSE "failed"),
                   actionError |-> payload.error_message ])
        ELSE s

\* verification that also moves the step on.
verificationSetsStep(s, payload) ==
    LET goalId == getCurrentGoalId(s)
    IN  IF Truthy(goalId)
        THEN updateGoalPipeline(s, Get(goalId),
                 [ step |-> Some(IF payload.goal_achieved THEN "done" ELSE "observing"),
                   verification |-> Some(payload.observation),
                   verified |-> Some(payload.goal_achieved) ])
        ELSE s

verification(s, payload) ==
    LET goalId == getCurrentGoalId(s)
    IN  IF Truthy(goalId)
        THEN updateGoalPipeline(s, Get(goalId),
                 [ verification |-> Some(payload.observation),
                   verified |-> Some(payload.goal_achieved) ])
        ELSE s

session_complete(s) == setState(s, "done")

agent_error(s, payload) == setError(s, payload.message)

llm_prompt(s, payload) == addLlmPrompt(s, payload)

llm_response(s, payload) == addLlmResponse(s, payload)

agent_done(s, payload) == setState(s, "done")

agent_failed(s, payload) == setError(s, payload)

\* The number of setTimeout(() => updateWindowHeight(), 10) calls a listener
\* makes: the goal and pipeline listeners schedule only inside `if (goalId)`.
scheduledByGoalIndex(s, payload) ==
    IF Truthy(goalIdAt(s, payload.goalIndex)) THEN 1 ELSE 0

\* A pipeline listener whose setTimeout stands after the `if (goalId)` block.
scheduledWithoutGoal(s) == 1

scheduledByCurrentGoal(s) == IF Truthy(getCurrentGoalId(s)) THEN 1 ELSE 0

\* String(err) of a rejected invoke: a string is itself, an Error object
\* prints as "Error: <message>".
StringOf(err) ==
    IF "message" \in DOMAIN err THEN "Error: " \o err.message ELSE err.text

\* CommandInput's disabled prop (Overlay.tsx).
inputDisabled(s) ==
    \/ s.state = "planning"
    \/ s.state = "executing"
    \/ /\ s.useAgentV2
       /\ s.agentSessionV2 # None
       /\ Get(s.agentSessionV2).state \notin {"done", "failed"}
    \/ /\ s.useAgentMode
       /\ ~s.useAgentV2
       /\ s.agentSession # None
       /\ Get(s.agentSession).state \notin {"complete", "error"}

\* CommandInput.handleSubmit up to its await: setCommand, setState('planning').
handleSubmit(s, input) == setState(setCommand(s, input), "planning")

(***************************************************************************)
(* The set calls of the handlers that make more than one, in source order: *)
(* the store after each call                                               *)
(***************************************************************************)
setCalls_plan_ready(s, payload) ==
    LET s1 == setPlan(s, payload)
    IN  <<s1, setState(s1, "executing")>>

setCalls_step_started(s, payload) ==
    LET s1 == setStepIndex(s, payload.stepIndex)
    IN  <<s1, setDebugLog(s1, payload.stepIndex, payload.debug)>>

setCalls_handleSubmit(s, input) ==
    LET s1 == setCommand(s, input)
    IN  <<s1, setState(s1, "planning")>>

\* agent_session that returns to idle before it applies the payload.
setCalls_agent_sessionIdleFirst(s, payload) ==
    LET s0 == setState(s, "idle")
    IN  <<s0, agent_session(s0, payload)>>

setCalls_agent_session(s, payload) ==
    IF isV2Payload(payload)
    THEN LET s1 == setAgentSessionV2(s, payload)
         IN  <<s1>> \o (IF payload.state = "done" THEN <<setState(s1, "done")>>
                        ELSE IF payload.state = "failed" THEN <<setState(s1, "error")>>
                        ELSE IF payload.state = "executing" THEN <<setState(s1, "executing")>>
                        ELSE IF payload.state = "planning" THEN <<setState(s1, "planning")>>
                        ELSE <<>>)
    ELSE LET s1 == setAgentSession(s, payload)
             goal == At(payload.goals, payload.current_goal_index)
             goalId == IF goal = None THEN None ELSE Some(Get(goal).id)
             step == stateToStep(payload.state)
             piped == IF Truthy(goalId) /\ step # None
                      THEN <<updateGoalPipeline(s1, Get(goalId), [step |-> step])>>
                      ELSE <<>>
             s2 == IF piped = <<>> THEN s1 ELSE piped[1]
         IN  <<s1>> \o piped \o
                 (IF payload.state = "complete" THEN <<setState(s2, "done")>>
                  ELSE IF payload.state = "error" THEN <<setState(s2, "error")>>
                  ELSE <<>>)

(***************************************************************************)
(* Payloads                                                                *)
(***************************************************************************)
AppStates == {"idle", "planning", "confirm", "executing", "done", "error"}
AgentStates ==
    { "idle", "decomposing", "observing", "thinking", "acting", "verifying",
      "complete", "error" }
GoalStatuses == {"pending", "in_progress", "completed", "failed"}
AgentStatesV2 == {"idle", "planning", "executing", "done", "failed"}

\* An ActionPlan of n steps.
LegacyPlan(n) ==
    [ id |-> "plan" \o ToString(n),
      original_command |-> "cmd",
      steps |-> [i \in 1..n |-> [id |-> ToString(i), type |-> "wait"]],
      requires_confirmation |-> FALSE ]

\* The goal at 0-based position i of a session; ids are not empty.
Goal(i, status) == [id |-> "g" \o ToString(i), status |-> status]

\* The goal list the runtime sends while it works on goal `cursor`.
ProgressGoals(n, cursor) ==
    [i \in 1..n |-> Goal(i - 1, IF i - 1 < cursor THEN "completed"
                                ELSE IF i - 1 = cursor THEN "in_progress"
                                ELSE "pending")]

V1Session(goals, cursor, st) ==
    [ id |-> "v1",
      original_command |-> "cmd",
      goals |-> goals,
      current_goal_index |-> cursor,
      state |-> st ]

V2Plan(n) ==
    [ task |-> "cmd",
      steps |-> [i \in 1..n |-> [id |-> i, status |-> "pending"]],
      current_step |-> 0 ]

V2Session(st, plan) ==
    [ id |-> "v2", task |-> "cmd", state |-> st, plan |-> plan, step_count |-> 0 ]

\* Every v1 session of at most MaxGoals goals in progress order.
V1Sessions ==
    { V1Session(ProgressGoals(n, c), c, st) :
          n \in 0..MaxGoals, c \in 0..MaxGoals, st \in AgentStates }

V2Sessions ==
    { V2Session(st, plan) :
          st \in AgentStatesV2,
          plan \in {None} \cup { Some(V2Plan(n)) : n \in 0..MaxPlanSteps } }

\* agent_session payloads of neither shape: with both discriminating fields,
\* and with none of them.
MalformedSessions ==
    { [ id |-> "x", task |-> "cmd", original_command |-> "cmd",
        goals |-> ProgressGoals(MaxGoals, 0), current_goal_index |-> 0,
        state |-> "observing" ],
      [ id |-> "x", goals |-> ProgressGoals(MaxGoals, 0), current_goal_index |-> 0,
        state |-> "observing" ] }

\* v1 sessions as the runtime sends them at the end of a run: after the last
\* goal, and with a goal that failed.
EndedSessions ==
    { V1Session(ProgressGoals(MaxGoals, MaxGoals), MaxGoals, "complete"),
      V1Session([i \in 1..MaxGoals |->
                    Goal(i - 1, IF i = 1 THEN "failed" ELSE "pending")], 0, "error") }

Messages == {"", "boom"}

Errs == { [text |-> "denied"], [message |-> "ipc closed"] }

ActionParamsSet ==
    { [app_name |-> "Safari"],
      [text |-> "hi"],
      [key |-> "c", modifiers |-> <<"cmd", "shift">>],
      [key |-> "Enter", modifiers |-> <<>>],
      [key |-> "Tab"],
      [x |-> 10, y |-> 20, button |-> "left"],
      [x |-> 3, y |-> 4],
      [ms |-> 500],
      [element |-> "OK button"] }

\* Parameter records outside the union: several tags at once, x without y,
\* no tag at all.
UntypedParamsSet ==
    { [app_name |-> "Safari", text |-> "hi"],
      [text |-> "hi", key |-> "c"],
      [key |-> "c", x |-> 1, y |-> 2],
      [x |-> 1, y |-> 2, ms |-> 5],
      [ms |-> 5, element |-> "OK button"],
      [x |-> 1, element |-> "OK button"],
      [x |-> 1],
      [button |-> "left"] }

UntypedActions ==
    { [id |-> "a2", action_type |-> "press_key", params |-> p, rationale |-> "try"] :
          p \in UntypedParamsSet }

AtomicActions ==
    { [id |-> "a1", action_type |-> "open_app", params |-> p, rationale |-> "launch"] :
          p \in ActionParamsSet }

ScreenStates == { [description |-> d] : d \in {"Safari window open", ""} }

ActionResults ==
    { [action_id |-> "a1", success |-> TRUE, error_message |-> None],
      [action_id |-> "a1", success |-> FALSE, error_message |-> Some("no such app")] }

VerificationResults ==
    { [goal_id |-> "g0", observation |-> "looks done", goal_achieved |-> b] :
          b \in BOOLEAN }

DecompositionInfos ==
    { [method |-> "pattern", pattern_name |-> Some("open"), original_command |-> "cmd"],
      [method |-> "llm", pattern_name |-> None, original_command |-> "cmd"] }

CallIds == { "c" \o ToString(i) : i \in 1..MaxCalls }

LlmDebugEvents ==
    { [ call_id |-> c, call_type |-> "action_decision", model |-> "llava",
        prompt |-> p, timestamp |-> 1 ] :
          c \in CallIds, p \in {"p1", "p2"} }

LlmResponseEvents ==
    { [ call_id |-> c, raw_response |-> "r", parsed_result |-> Some("{}"),
        duration_ms |-> 5, success |-> TRUE, error |-> None ] : c \in CallIds }
    \cup
    { [ call_id |-> c, raw_response |-> "", parsed_result |-> None,
        duration_ms |-> 9, success |-> FALSE, error |-> Some("timeout") ] :
          c \in CallIds }

(***************************************************************************)
(* Steps: one per listener, UI callback, timer and settled invocation      *)
(***************************************************************************)
InitHist == [last |-> "init", resize |-> "none", prompted |-> {}, memo |-> None]

Init ==
    /\ store = InitStore
    /\ timers = 0
    /\ window = windowSize(InitStore)   \* setupListeners: updateWindowHeight()
    /\ inflight = <<>>
    /\ hist = InitHist

\* The store subscriber: state went from non-idle to idle.
resetDetected(state, prevState) == state.state = "idle" /\ prevState.state # "idle"

\* A listener or callback ran to completion: the store holds s1, `sched`
\* timers were added, and the subscriber recomputed the window for s1 when it
\* saw a reset.  The subscriber runs after every set; only reset assigns
\* 'idle', so it is tested once, on the handler's last store.  Here setSize
\* resolves; hist.resize tells whether the step called updateWindowHeight.
Commit(name, s1, sched, h) ==
    /\ timers + sched <= MaxTimers
    /\ store' = s1
    /\ timers' = timers + sched
    /\ IF resetDetected(s1, store)
       THEN /\ window' = windowSize(s1)
            /\ hist' = [h EXCEPT !.last = name, !.resize = "ok"]
       ELSE /\ window' = window
            /\ hist' = [h EXCEPT !.last = name, !.resize = "none"]

Deliver(name, s1, sched) == Commit(name, s1, sched, hist) /\ UNCHANGED inflight

\* A timer's recomputation that grows the window to fit and never shrinks it.
TimerFiresNeverShrinks ==
    /\ timers > 0
    /\ timers' = timers - 1
    /\ UNCHANGED <<store, inflight>>
    /\ window' = IF windowHeight(store) < window.height
                  THEN window ELSE windowSize(store)
    /\ hist' = [hist EXCEPT !.last = "timer", !.resize = "ok"]

\* A deferred updateWindowHeight runs and setSize resolves.
TimerFires ==
    /\ timers > 0
    /\ timers' = timers - 1
    /\ UNCHANGED <<store, inflight>>
    /\ window' = windowSize(store)
    /\ hist' = [hist EXCEPT !.last = "timer", !.resize = "ok"]

\* A catch block that reports the failed resize as a session error.
TimerFiresRejectedAsError ==
    /\ timers > 0
    /\ timers' = timers - 1
    /\ \E err \in Errs : store' = setError(store, StringOf(err))
    /\ UNCHANGED <<window, inflight>>
    /\ hist' = [hist EXCEPT !.last = "timer", !.resize = "failed"]

\* A deferred updateWindowHeight runs and setSize (or getCurrentWindow)
\* fails: catch (err) { console.error(...) }, the window keeps its size.
TimerFiresRejected ==
    /\ timers > 0
    /\ timers' = timers - 1
    /\ UNCHANGED <<store, window, inflight>>
    /\ hist' = [hist EXCEPT !.last = "timer", !.resize = "failed"]

\* plan_ready: the listener runs to its await; execute_plan is in flight.
Ev_plan_ready(Payloads) ==
    \E payload \in Payloads :
        /\ Len(inflight) < MaxInflight
        /\ Commit("plan_ready", plan_ready(store, payload), 0, hist)
        /\ inflight' = Append(inflight, payload)

RemoveAt(seq, k) == [i \in 1..(Len(seq) - 1) |-> IF i < k THEN seq[i] ELSE seq[i + 1]]

\* An invocation a UI callback started (those of plan_ready are plans).
startedByUI(inv) == "invoke" \in DOMAIN inv

\* execute_plan resolved: the listener ends.
ExecResolves ==
    \E k \in DOMAIN inflight :
        /\ ~startedByUI(inflight[k])
        /\ Commit("exec_resolved", store, 0, hist)
        /\ inflight' = RemoveAt(inflight, k)

\* execute_plan rejected: catch (err) { setError(String(err)) }.
ExecRejects ==
    \E k \in DOMAIN inflight, err \in Errs :
        /\ ~startedByUI(inflight[k])
        /\ Commit("exec_rejected", setError(store, StringOf(err)), 0, hist)
        /\ inflight' = RemoveAt(inflight, k)

Ev_step_started(Payloads) ==
    \E payload \in Payloads : Deliver("step_started", step_started(store, payload), 0)

Ev_step_completed(Payloads) ==
    \E payload \in Payloads : Deliver("step_completed", step_completed(store, payload), 0)

Ev_execution_done(Payloads) ==
    \E payload \in Payloads : Deliver("execution_done", execution_done(store, payload), 0)

Ev_error(Payloads) ==
    \E payload \in Payloads : Deliver("error", error(store, payload), 0)

Ev_decomposition(Payloads) ==
    \E payload \in Payloads : Deliver("decomposition", decomposition(store, payload), 1)

Ev_goals_ready == Deliver("goals_ready", store, 1)

Ev_agent_session(Payloads) ==
    \E payload \in Payloads : Deliver("agent_session", agent_session(store, payload), 1)

Ev_goal_started(Payloads) ==
    \E payload \in Payloads :
        Deliver("goal_started", goal_started(store, payload),
                scheduledByGoalIndex(store, payload))

Ev_goal_completed(Payloads) ==
    \E payload \in Payloads :
        Deliver("goal_completed", goal_completed(store, payload),
                scheduledByGoalIndex(store, payload))

Ev_observation(Payloads) ==
    \E payload \in Payloads :
        Deliver("observation", observation(store, payload), scheduledByCurrentGoal(store))

Ev_action_planned(Payloads) ==
    \E payload \in Payloads :
        Deliver("action_planned", action_planned(store, payload),
                scheduledByCurrentGoal(store))

Ev_action_completed(Payloads) ==
    \E payload \in Payloads :
        Deliver("action_completed", action_completed(store, payload),
                scheduledByCurrentGoal(store))

Ev_verification(Payloads) ==
    \E payload \in Payloads : Deliver("verification", verification(store, payload), 0)

Ev_session_complete == Deliver("session_complete", session_complete(store), 0)

Ev_agent_error(Payloads) ==
    \E payload \in Payloads : Deliver("agent_error", agent_error(store, payload), 0)

Ev_llm_prompt(Payloads) ==
    \E payload \in Payloads :
        /\ Commit("llm_prompt", llm_prompt(store, payload), 0,
                  [hist EXCEPT !.prompted = @ \cup {payload.call_id}])
        /\ UNCHANGED inflight

Ev_llm_response(Payloads) ==
    \E payload \in Payloads :
        Deliver("llm_response", llm_response(store, payload), 0)

Ev_agent_done(Payloads) ==
    \E payload \in Payloads : Deliver("agent_done", agent_done(store, payload), 1)

Ev_agent_failed(Payloads) ==
    \E payload \in Payloads : Deliver("agent_failed", agent_failed(store, payload), 1)

\* tool_result only logs.
Ev_tool_result == Deliver("tool_result", store, 0)

\* The store's reset, as PlanView.handleCancel calls it.
UI_reset == Deliver("reset", reset(store), 0)

\* reset whose recomputation by the subscriber fails in setSize.
UI_resetResizeRejected ==
    /\ resetDetected(reset(store), store)
    /\ store' = reset(store)
    /\ UNCHANGED <<timers, window, inflight>>
    /\ hist' = [hist EXCEPT !.last = "reset", !.resize = "failed"]

\* CommandInput: Enter on a non-blank input while the input is enabled.
UI_handleSubmit(Inputs) ==
    \E input \in Inputs :
        /\ ~inputDisabled(store)
        /\ Deliver("handleSubmit", handleSubmit(store, input), 0)

\* CommandInput.handleSubmit with its invoke('plan_command') in flight.
UI_handleSubmitInvoking(Inputs) ==
    \E input \in Inputs :
        /\ ~inputDisabled(store)
        /\ Len(inflight) < MaxInflight
        /\ Commit("handleSubmit", handleSubmit(store, input), 0, hist)
        /\ inflight' = Append(inflight, [invoke |-> "plan_command", command |-> input])

\* ProgressView.handleCancel: the Cancel button shows while a plan executes;
\* invoke('cancel_execution') is in flight.
UI_handleCancel ==
    /\ store.plan # None
    /\ store.state = "executing"
    /\ Len(inflight) < MaxInflight
    /\ Commit("handleCancel", store, 0, hist)
    /\ inflight' = Append(inflight, [invoke |-> "cancel_execution"])

\* An invocation started by a UI callback resolved: nothing follows the await.
InvokeResolves ==
    \E k \in DOMAIN inflight :
        /\ startedByUI(inflight[k])
        /\ Commit("invoke_resolved", store, 0, hist)
        /\ inflight' = RemoveAt(inflight, k)

\* It rejected: catch (err) { console.error(...) }.
InvokeRejects ==
    \E k \in DOMAIN inflight, err \in Errs :
        /\ startedByUI(inflight[k])
        /\ Commit("invoke_rejected", store, 0, hist)
        /\ inflight' = RemoveAt(inflight, k)

\* The call list: a click on a listed call selects it.
UI_selectLlmCall ==
    \E callId \in DOMAIN store.llmCalls :
        Deliver("selectLlmCall", selectLlmCall(store, Some(callId)), 0)

\* The Clear button, shown while the list is not empty.
UI_clearLlmCalls ==
    /\ DOMAIN store.llmCalls # {}
    /\ Deliver("clearLlmCalls", clearLlmCalls(store), 0)

\* The configuration switches of the store.
Cfg_setUseAgentMode ==
    \E use \in BOOLEAN : Deliver("setUseAgentMode", setUseAgentMode(store, use), 0)

Cfg_setUseAgentV2 ==
    \E use \in BOOLEAN : Deliver("setUseAgentV2", setUseAgentV2(store, use), 0)

(***************************************************************************)
(* SpecLlm: the LLM debug trace (llm_prompt, llm_response, the call list   *)
(* and reset)                                                              *)
(***************************************************************************)
NextLlm ==
    \/ Ev_llm_prompt(LlmDebugEvents)
    \/ Ev_llm_response(LlmResponseEvents)
    \/ UI_selectLlmCall
    \/ UI_clearLlmCalls
    \/ UI_reset

SpecLlm == Init /\ [][NextLlm]_vars

(***************************************************************************)
(* SpecLegacy: the legacy single-plan protocol                             *)
(***************************************************************************)
StepIndexes == 0..MaxStepIndex

StepStartedPayloads == { [stepIndex |-> i, debug |-> "dbg"] : i \in StepIndexes }

StepCompletedPayloads ==
    { [stepIndex |-> i, success |-> b] : i \in StepIndexes, b \in BOOLEAN }

ExecutionDonePayloads ==
    { [success |-> TRUE, message |-> None] }
    \cup { [success |-> FALSE, message |-> m] : m \in {None, Some(""), Some("boom")} }

ErrorPayloads == { [message |-> "boom"] }

NextLegacy ==
    \/ Ev_plan_ready({LegacyPlan(MaxSteps)})
    \/ ExecResolves
    \/ ExecRejects
    \/ Ev_step_started(StepStartedPayloads)
    \/ Ev_step_completed(StepCompletedPayloads)
    \/ Ev_execution_done(ExecutionDonePayloads)
    \/ Ev_error(ErrorPayloads)
    \/ UI_handleSubmit({"open safari"})
    \/ UI_reset

SpecLegacy == Init /\ [][NextLegacy]_vars

(***************************************************************************)
(* SpecGoal: the v1 goal pipeline                                          *)
(***************************************************************************)
GoalIndexes == 0..MaxGoals

GoalIndexPayloads == { [goalIndex |-> i] : i \in GoalIndexes }

\* Sessions of MaxGoals goals with the cursor on each goal.
GoalSessions ==
    { V1Session(ProgressGoals(MaxGoals, c), c, st) :
          c \in 0..(MaxGoals - 1), st \in {"idle"} }

NextGoal ==
    \/ Ev_agent_session(GoalSessions)
    \/ Ev_goal_started(GoalIndexPayloads)
    \/ Ev_observation({[description |-> "Safari window open"]})
    \/ Ev_action_planned({ a \in AtomicActions : "app_name" \in DOMAIN a.params })
    \/ UI_reset
    \/ TimerFires

SpecGoal == Init /\ [][NextGoal]_vars

(***************************************************************************)
(* Spec: one operation per store field (the three flows side by side, the  *)
(* debug trace, the switches and reset)                                    *)
(***************************************************************************)
Next ==
    \/ Ev_plan_ready({LegacyPlan(MaxSteps)})
    \/ ExecResolves
    \/ ExecRejects
    \/ Ev_agent_session({ V1Session(ProgressGoals(MaxGoals, 0), 0, "observing"),
                          V2Session("executing", Some(V2Plan(MaxPlanSteps))) })
    \/ Ev_llm_prompt({ e \in LlmDebugEvents : e.call_id = "c1" /\ e.prompt = "p1" })
    \/ UI_selectLlmCall
    \/ Cfg_setUseAgentMode
    \/ Cfg_setUseAgentV2
    \/ UI_reset
    \/ TimerFires

Spec == Init /\ [][Next]_vars

(***************************************************************************)
(* SpecSession: the three flows' entry points (plan_ready and both         *)
(* agent_session formats, ending states included)                          *)
(***************************************************************************)
SessionPayloads ==
    { V1Session(ProgressGoals(MaxGoals, 0), 0, "observing"),
      V1Session(ProgressGoals(MaxGoals, MaxGoals - 1), MaxGoals - 1, "complete"),
      V1Session(ProgressGoals(MaxGoals, 0), 0, "error"),
      V2Session("executing", Some(V2Plan(MaxPlanSteps))),
      V2Session("done", Some(V2Plan(MaxPlanSteps))),
      V2Session("failed", None) }

NextSession ==
    \/ Ev_plan_ready({LegacyPlan(MaxSteps)})
    \/ ExecResolves
    \/ ExecRejects
    \/ Ev_agent_session(SessionPayloads)
    \/ UI_reset
    \/ TimerFires

SpecSession == Init /\ [][NextSession]_vars

(***************************************************************************)
(* SpecLayout: the window against the store (sessions of both formats,     *)
(* verification, reset, the resize timers and an observer of resizes)      *)
(***************************************************************************)
\* An observer notes one applied size with the snapshot it was computed from.
ObserveResize ==
    /\ hist.resize = "ok"
    /\ hist.memo = None
    /\ hist' = [hist EXCEPT !.memo = Some([snap |-> store, size |-> window])]
    /\ UNCHANGED <<store, timers, window, inflight>>

LayoutSessions ==
    { V1Session(ProgressGoals(MaxGoals, 0), 0, "observing"),
      V2Session("planning", None),
      V2Session("executing", Some(V2Plan(MaxPlanSteps))) }

NextLayout ==
    \/ Ev_agent_session(LayoutSessions)
    \/ Ev_verification({ v \in VerificationResults : v.goal_achieved })
    \/ UI_reset
    \/ TimerFires
    \/ ObserveResize

SpecLayout == Init /\ [][NextLayout]_vars

(***************************************************************************)
(* SpecInvoke: the three commands sent to the runtime and how they settle  *)
(***************************************************************************)
NextInvoke ==
    \/ UI_handleSubmitInvoking({"open safari"})
    \/ UI_handleCancel
    \/ InvokeResolves
    \/ InvokeRejects
    \/ Ev_plan_ready({LegacyPlan(MaxSteps)})
    \/ ExecResolves
    \/ ExecRejects
    \/ Ev_execution_done({[success |-> TRUE, message |-> None]})
    \/ UI_reset

SpecInvoke == Init /\ [][NextInvoke]_vars

(***************************************************************************)
(* SpecPipeline: the goal-pipeline map across v1 sessions (a session, the  *)
(* session of a later command, and the pipeline listeners)                 *)
(***************************************************************************)
\* The v1 session of a later command: its goals have ids of their own.
LaterSession ==
    V1Session(<<[id |-> "h0", status |-> "in_progress"]>>, 0, "idle")

NextPipeline ==
    \/ Ev_agent_session({ V1Session(ProgressGoals(MaxGoals, 0), 0, "observing"),
                          LaterSession })
    \/ Ev_goal_started({[goalIndex |-> 0]})
    \/ Ev_goal_completed({[goalIndex |-> 0]})
    \/ Ev_observation({[description |-> "Safari window open"]})
    \/ Ev_verification({ v \in VerificationResults : v.goal_achieved })
    \/ UI_reset
    \/ TimerFires

SpecPipeline == Init /\ [][NextPipeline]_vars

(***************************************************************************)
(* SpecOps: stores with every kind of content (a legacy step and error,    *)
(* both sessions, a pipeline entry, answered and pending LLM calls)        *)
(***************************************************************************)
NextOps ==
    \/ Ev_step_started({[stepIndex |-> MaxStepIndex, debug |-> "d1"]})
    \/ Ev_error(ErrorPayloads)
    \/ Ev_agent_session({ V1Session(ProgressGoals(MaxGoals, 0), 0, "observing"),
                          V2Session("executing", Some(V2Plan(MaxPlanSteps))) })
    \/ Ev_observation({[description |-> "Safari window open"]})
    \/ Ev_llm_prompt({ e \in LlmDebugEvents : e.call_id = "c1" /\ e.prompt = "p1" })
    \/ Ev_llm_response({ r \in LlmResponseEvents : r.call_id = "c1" /\ r.success })
    \/ UI_selectLlmCall
    \/ UI_clearLlmCalls
    \/ UI_reset
    \/ TimerFires

SpecOps == Init /\ [][NextOps]_vars

(***************************************************************************)
(* SpecTerminal: the events that end a run, on stores that hold sessions   *)
(* of both formats, a pipeline entry and an LLM call                       *)
(***************************************************************************)
NextTerminal ==
    \/ Ev_agent_session({ V1Session(ProgressGoals(MaxGoals, 0), 0, "observing"),
                          V2Session("executing", Some(V2Plan(MaxPlanSteps))) })
    \/ Ev_llm_prompt({ e \in LlmDebugEvents : e.call_id = "c1" /\ e.prompt = "p1" })
    \/ Ev_execution_done(ExecutionDonePayloads)
    \/ Ev_error(ErrorPayloads)
    \/ Ev_session_complete
    \/ Ev_agent_error({[message |-> "agent boom"]})
    \/ Ev_agent_done({"ok"})
    \/ Ev_agent_failed({"tool failed"})
    \/ UI_reset
    \/ TimerFires

SpecTerminal == Init /\ [][NextTerminal]_vars

(***************************************************************************)
(* SpecCycle: the observe / plan / act / verify cycle on the goal at the   *)
(* cursor, with the cursor on the first and on the second goal             *)
(***************************************************************************)
CycleSessions ==
    { V1Session(ProgressGoals(MaxGoals, c), c, "idle") : c \in {0, 1} }

NextCycle ==
    \/ Ev_agent_session(CycleSessions)
    \/ Ev_observation({[description |-> "Safari window open"]})
    \/ Ev_action_planned({ a \in AtomicActions : "app_name" \in DOMAIN a.params })
    \/ Ev_action_completed({ r \in ActionResults : ~r.success })
    \/ Ev_verification({ v \in VerificationResults : v.goal_achieved })
    \/ UI_reset
    \/ TimerFires

SpecCycle == Init /\ [][NextCycle]_vars

(***************************************************************************)
(* SpecRetry: one goal whose action is tried more than once                *)
(***************************************************************************)
NextRetry ==
    \/ Ev_agent_session({ V1Session(ProgressGoals(MaxGoals, 0), 0, "idle") })
    \/ Ev_goal_started({[goalIndex |-> 0]})
    \/ Ev_observation({[description |-> "Safari window open"]})
    \/ Ev_action_completed(ActionResults)
    \/ Ev_verification(VerificationResults)
    \/ UI_reset
    \/ TimerFires

SpecRetry == Init /\ [][NextRetry]_vars

(***************************************************************************)
(* SpecNoop: events that find nothing to update (no v1 session, an index   *)
(* or a cursor past the goals, a diagnostic event) among events that do    *)
(***************************************************************************)
NoopSessions ==
    { V1Session(ProgressGoals(MaxGoals, 0), 0, "idle"),
      V1Session(ProgressGoals(MaxGoals, MaxGoals), MaxGoals, "idle") }

NextNoop ==
    \/ Ev_tool_result
    \/ Ev_goals_ready
    \/ Ev_step_completed({ p \in StepCompletedPayloads : p.success })
    \/ Ev_agent_session(NoopSessions)
    \/ Ev_goal_started({ p \in GoalIndexPayloads : p.goalIndex \in {0, MaxGoals} })
    \/ Ev_goal_completed({ p \in GoalIndexPayloads : p.goalIndex \in {0, MaxGoals} })
    \/ Ev_observation({[description |-> "Safari window open"]})
    \/ Ev_action_planned({ a \in AtomicActions : "app_name" \in DOMAIN a.params })
    \/ Ev_action_completed({ r \in ActionResults : ~r.success })
    \/ Ev_verification({ v \in VerificationResults : v.goal_achieved })
    \/ UI_reset
    \/ TimerFires

SpecNoop == Init /\ [][NextNoop]_vars

(***************************************************************************)
(* SpecResize: recomputations whose setSize resolves or fails              *)
(***************************************************************************)
NextResize ==
    \/ Ev_agent_session(LayoutSessions)
    \/ Ev_agent_failed({"tool failed"})
    \/ UI_reset
    \/ UI_resetResizeRejected
    \/ TimerFires
    \/ TimerFiresRejected

SpecResize == Init /\ [][NextResize]_vars

(***************************************************************************)
(* SpecParams: action_planned with parameter records of every shape        *)
(***************************************************************************)
NextParams ==
    \/ Ev_agent_session({ V1Session(ProgressGoals(MaxGoals, 0), 0, "thinking") })
    \/ Ev_action_planned(AtomicActions \cup UntypedActions)
    \/ UI_reset
    \/ TimerFires

SpecParams == Init /\ [][NextParams]_vars

(***************************************************************************)
(* SpecDecomp: decomposition info and the v1 session it belongs to         *)
(***************************************************************************)
NextDecomp ==
    \/ Ev_decomposition(DecompositionInfos)
    \/ Ev_agent_session({ V1Session(ProgressGoals(MaxGoals, 0), 0, "observing"),
                          V1Session(ProgressGoals(MaxGoals, MaxGoals), MaxGoals, "complete") })
    \/ UI_reset
    \/ TimerFires

SpecDecomp == Init /\ [][NextDecomp]_vars

(***************************************************************************)
(* SpecRuntime: the v1 sessions the agent runtime (src-tauri) sends while   *)
(* it works through the goals of one command, as the specification         *)
(* describes a Goal: attempts within max_attempts, status moving           *)
(* pending -> in_progress -> completed or failed                           *)
(***************************************************************************)
RuntimeGoal(i, status, attempts) ==
    [ id |-> "g" \o ToString(i), status |-> status,
      attempts |-> attempts, max_attempts |-> MaxAttempts ]

\* The session the runtime sends first: every goal pending, no attempt made.
RuntimeStart ==
    V1Session([i \in 1..MaxGoals |-> RuntimeGoal(i - 1, "pending", 0)], 0, "decomposing")

\* The sessions the runtime may send after `session`: the goal at the cursor
\* is taken up, tried once more, completed (the cursor moves on, or the
\* session is complete) or failed (the session ends in error).
RuntimeNext(session) ==
    LET c == session.current_goal_index
        goal == session.goals[c + 1]
        with(g, cursor, st) ==
            [session EXCEPT !.goals[c + 1] = g, !.current_goal_index = cursor, !.state = st]
    IN  IF session.state \in {"complete", "error"} THEN {session}
        ELSE IF goal.status = "pending"
        THEN { with([goal EXCEPT !.status = "in_progress"], c, "observing") }
        ELSE { with([goal EXCEPT !.attempts = @ + 1], c, "acting") :
                   x \in { y \in {0} : goal.attempts < goal.max_attempts } }
             \cup { with([goal EXCEPT !.status = "completed"],
                         IF c + 1 < Len(session.goals) THEN c + 1 ELSE c,
                         IF c + 1 < Len(session.goals) THEN "verifying" ELSE "complete") }
             \cup { with([goal EXCEPT !.status = "failed"], c, "error") }

RuntimeSessions(s) ==
    IF s.agentSession = None THEN {RuntimeStart}
    ELSE RuntimeNext(Get(s.agentSession))

NextRuntime ==
    \/ Ev_agent_session(RuntimeSessions(store))
    \/ UI_reset
    \/ TimerFires

SpecRuntime == Init /\ [][NextRuntime]_vars

(***************************************************************************)
(* Claims                                                                  *)
(***************************************************************************)

\* C1: agent_session with a payload that has `task` and no
\* `original_command` replaces agentSessionV2 and leaves agentSession and
\* goalPipelineStates as they were; with a payload that has
\* `original_command` and no `task` it replaces agentSession and leaves
\* agentSessionV2 as it was; the store's contents play no part in the choice.
C1_SessionPathByPayloadShape ==
    /\ \A payload \in V2Sessions :
          LET s1 == agent_session(store, payload)
          IN  /\ s1.agentSessionV2 = Some(payload)
              /\ s1.agentSession = store.agentSession
              /\ s1.goalPipelineStates = store.goalPipelineStates
    /\ \A payload \in V1Sessions :
          LET s1 == agent_session(store, payload)
          IN  /\ s1.agentSession = Some(payload)
              /\ s1.agentSessionV2 = store.agentSessionV2

\* A v1 payload has just been stored while a v2 session was in the store,
\* and the v2 session is still there.
C1_Witness ==
    /\ hist.last = "agent_session"
    /\ store.agentSession = Some(V1Session(ProgressGoals(MaxGoals, 0), 0, "observing"))
    /\ store.agentSessionV2 = Some(V2Session("executing", Some(V2Plan(MaxPlanSteps))))
    /\ store.useAgentV2

\* C2: the keys of llmCalls are call ids of llm_prompt events delivered so
\* far; an llm_response whose call_id is no key of llmCalls leaves the whole
\* store as it is; and after llm_prompt(p), llm_response(r) with another,
\* unknown id, the map has gained exactly p's entry, in status pending.
C2_ResponseNeverCreates ==
    /\ DOMAIN store.llmCalls \subseteq hist.prompted
    /\ \A r \in LlmResponseEvents :
          r.call_id \notin DOMAIN store.llmCalls => llm_response(store, r) = store
    /\ \A p \in LlmDebugEvents, r \in LlmResponseEvents :
          (r.call_id # p.call_id /\ r.call_id \notin DOMAIN store.llmCalls) =>
              LET s2 == llm_response(llm_prompt(store, p), r)
              IN  /\ DOMAIN s2.llmCalls = DOMAIN store.llmCalls \cup {p.call_id}
                  /\ s2.llmCalls[p.call_id].status = "pending"
                  /\ s2.llmCalls[p.call_id].raw_response = None

\* Prompt c1 then response c2 have been delivered: c1 alone, pending.
C2_Witness ==
    /\ hist.last = "llm_response"
    /\ hist.prompted = {"c1"}
    /\ DOMAIN store.llmCalls = {"c1"}
    /\ store.llmCalls["c1"].status = "pending"

FreshEntry == [f \in PipelineFields |-> IF f = "step" THEN Some("observing") ELSE None]

\* C3: with a v1 session that has a goal at position i (goal ids are not
\* empty), goal_started(i) leaves that goal's entry with step observing and
\* every other field absent, whatever it held; other entries are unchanged.
C3_GoalStartedClears ==
    \A i \in GoalIndexes :
        (store.agentSession # None /\ At(Get(store.agentSession).goals, i) # None) =>
            LET g == Get(At(Get(store.agentSession).goals, i)).id
                before == store.goalPipelineStates
                after == goal_started(store, [goalIndex |-> i]).goalPipelineStates
            IN  /\ DOMAIN after = DOMAIN before \cup {g}
                /\ after[g] = FreshEntry
                /\ \A k \in DOMAIN before \ {g} : after[k] = before[k]

\* goal_started(0) has just cleared g0's entry while g1's entry holds an
\* observation and an action.
C3_Witness ==
    /\ hist.last = "goal_started"
    /\ DOMAIN store.goalPipelineStates = {"g0", "g1"}
    /\ store.goalPipelineStates["g0"] = FreshEntry
    /\ store.goalPipelineStates["g1"].observation # None
    /\ store.goalPipelineStates["g1"].actionType # None

\* s, and the stores a submitted command, a step_started or a decomposition
\* event makes of it.
WithMoreEvents(s) ==
    {s} \cup { step_started(s, [stepIndex |-> i, debug |-> "d1"]) : i \in 0..MaxStepIndex }
        \cup { decomposition(s, d) : d \in DecompositionInfos }
        \cup { handleSubmit(s, "open safari") }

\* C4: reset leaves run-state idle, the command empty, plan null, the step
\* cursor 0, error null, debugLogs empty, both sessions null, the pipeline
\* map empty, decomposition null, llmCalls empty and the selection null;
\* useAgentMode and useAgentV2 keep their values; reset twice is reset once.
C4_ResetClearsAndIsIdempotent ==
    \A s \in WithMoreEvents(store) :
        LET r == reset(s)
        IN  /\ r.state = "idle"
            /\ r.command = ""
            /\ r.plan = None
            /\ r.currentStepIndex = 0
            /\ r.error = None
            /\ r.debugLogs = EmptyMap
            /\ r.agentSession = None
            /\ r.agentSessionV2 = None
            /\ r.goalPipelineStates = EmptyMap
            /\ r.decompositionInfo = None
            /\ r.llmCalls = EmptyMap
            /\ r.selectedLlmCall = None
            /\ r.useAgentMode = s.useAgentMode
            /\ r.useAgentV2 = s.useAgentV2
            /\ reset(r) = r

\* reset has just run on a store that was not idle, with both switches off:
\* the store equals the initial one except for the switches.
C4_Witness ==
    /\ hist.last = "reset"
    /\ hist.resize = "ok"
    /\ ~store.useAgentMode
    /\ ~store.useAgentV2
    /\ store = [InitStore EXCEPT !.useAgentMode = FALSE, !.useAgentV2 = FALSE]
    /\ hist.prompted # {}

C6_StepFailed ==
    /\ \A i \in 0..(MaxStepIndex + 1) :
          LET s1 == step_completed(store, [stepIndex |-> i, success |-> FALSE])
          IN  /\ s1.state = "error"
              /\ s1.error = Some("Step " \o ToString(i + 1) \o " failed")
              /\ s1.plan = store.plan
              /\ s1.currentStepIndex = store.currentStepIndex
              /\ s1.debugLogs = store.debugLogs
    /\ LET s1 == plan_ready(store, LegacyPlan(3))
           s2 == step_started(s1, [stepIndex |-> 0, debug |-> "d0"])
           s3 == step_completed(s2, [stepIndex |-> 0, success |-> TRUE])
           s4 == step_started(s3, [stepIndex |-> 1, debug |-> "d1"])
           s5 == step_completed(s4, [stepIndex |-> 1, success |-> FALSE])
       IN  /\ s5.state = "error"
           /\ s5.error = Some("Step 2 failed")
           /\ s5.plan = Some(LegacyPlan(3))
           /\ s5.currentStepIndex = 1
           /\ s5.debugLogs = Put(Put(store.debugLogs, 0, "d0"), 1, "d1")
           /\ (2 \in DOMAIN s5.debugLogs) = (2 \in DOMAIN store.debugLogs)

\* The scenario has run: a plan of 3 steps, steps 0 and 1 started, step 1
\* failed last.
C6_Witness ==
    /\ hist.last = "step_completed"
    /\ store.state = "error"
    /\ store.error = Some("Step 2 failed")
    /\ store.plan = Some(LegacyPlan(3))
    /\ store.currentStepIndex = 1
    /\ DOMAIN store.debugLogs = {0, 1}

\* The text action_planned shows for each parameter record of the model.
ExpectedParamsText(params) ==
    CASE params = [app_name |-> "Safari"] -> "Safari"
      [] params = [text |-> "hi"] -> "\"hi\""
      [] params = [key |-> "c", modifiers |-> <<"cmd", "shift">>] -> "cmd+shift+c"
      [] params = [key |-> "Enter", modifiers |-> <<>>] -> "Enter"
      [] params = [key |-> "Tab"] -> "Tab"
      [] params = [x |-> 10, y |-> 20, button |-> "left"] -> "(10, 20)"
      [] params = [x |-> 3, y |-> 4] -> "(3, 4)"
      [] params = [ms |-> 500] -> "500ms"
      [] params = [element |-> "OK button"] -> "OK button"

\* C7: with the v1 cursor at 0 on a goal g, goal_started(0), observation(d),
\* action_planned(t, p, r) leave g's entry with step acting, observation d,
\* actionType t, actionParams the text of p, actionRationale r, and no
\* actionResult, actionError, verification or verified.
C7_ObserveThenPlan ==
    \A d \in ScreenStates, a \in AtomicActions :
        ( /\ store.agentSession # None
          /\ Get(store.agentSession).current_goal_index = 0
          /\ At(Get(store.agentSession).goals, 0) # None ) =>
            LET g == Get(At(Get(store.agentSession).goals, 0)).id
                s1 == goal_started(store, [goalIndex |-> 0])
                s2 == observation(s1, d)
                s3 == action_planned(s2, a)
            IN  s3.goalPipelineStates[g] =
                    [ step |-> Some("acting"),
                      observation |-> Some(d.description),
                      actionType |-> Some(a.action_type),
                      actionParams |-> Some(ExpectedParamsText(a.params)),
                      actionRationale |-> Some(a.rationale),
                      actionResult |-> None,
                      actionError |-> None,
                      verification |-> None,
                      verified |-> None ]

\* The spec's scenario has run on goal g0.
C7_Witness ==
    /\ hist.last = "action_planned"
    /\ store.agentSession # None
    /\ Get(store.agentSession).current_goal_index = 0
    /\ "g0" \in DOMAIN store.goalPipelineStates
    /\ store.goalPipelineStates["g0"] =
           [ step |-> Some("acting"),
             observation |-> Some("Safari window open"),
             actionType |-> Some("open_app"),
             actionParams |-> Some("Safari"),
             actionRationale |-> Some("launch"),
             actionResult |-> None,
             actionError |-> None,
             verification |-> None,
             verified |-> None ]

\* The flows whose data the store holds.
FlowsPresent ==
    { f \in {"plan", "agentSession", "agentSessionV2"} : store[f] # None }

\* C8: in every reachable state at most one of plan, agentSession and
\* agentSessionV2 is not null.
C8_AtMostOneFlow == Cardinality(FlowsPresent) <= 1

\* The steps of the listeners the adapter reconciles, and reset.
ReconciledOrReset ==
    { "plan_ready", "step_started", "step_completed", "execution_done", "error",
      "decomposition", "goals_ready", "agent_session", "goal_started",
      "goal_completed", "observation", "action_planned", "action_completed",
      "verification", "session_complete", "agent_error", "agent_done",
      "agent_failed", "reset" }

\* C9: after every reconciled event or reset that changes the derived window
\* size, the size has been recomputed or a recomputation is pending; and
\* whenever no recomputation timer is pending, the applied window size is the
\* size derived from the store.
C9_LayoutChangeRecomputes ==
    /\ [][ (hist'.last \in ReconciledOrReset /\ windowSize(store') # windowSize(store))
              => (timers' > 0 \/ hist'.resize = "ok") ]_vars
    /\ [](timers = 0 => window = windowSize(store))

\* C10: whenever run-state is error, the error field is not null.
C10_ErrorStateHasMessage == store.state = "error" => store.error # None

\* C11: after plan_command, execute_plan or cancel_execution is rejected the
\* run-state is error and the error field holds a message; a rejected
\* plan_command does not leave the run-state at planning.
C11_RejectionSetsError ==
    hist.last \in {"exec_rejected", "invoke_rejected"} =>
        (store.state = "error" /\ store.error # None)

\* The fields of an LLM-call entry that a response fills.
ResponseFields == {"status", "raw_response", "parsed_result", "duration_ms", "success", "error"}

\* C12: once an entry's status is success or error, no later llm_prompt or
\* llm_response event changes its status or its response fields.
C12_SettledEntryIsFinal ==
    [][ hist'.last \in {"llm_prompt", "llm_response"} =>
          \A c \in DOMAIN store.llmCalls :
              store.llmCalls[c].status \in {"success", "error"} =>
                  /\ c \in DOMAIN store'.llmCalls
                  /\ \A f \in ResponseFields :
                        store'.llmCalls[c][f] = store.llmCalls[c][f] ]_vars

\* The stores that one listener or one UI callback, other than reset and
\* clearLlmCalls, makes of s.
AfterOneStep(s) ==
    { plan_ready(s, LegacyPlan(n)) : n \in 0..MaxSteps }
    \cup { step_started(s, p) : p \in StepStartedPayloads }
    \cup { step_completed(s, p) : p \in StepCompletedPayloads }
    \cup { execution_done(s, p) : p \in ExecutionDonePayloads }
    \cup { error(s, p) : p \in ErrorPayloads }
    \cup { setError(s, StringOf(e)) : e \in Errs }
    \cup { decomposition(s, p) : p \in DecompositionInfos }
    \cup { agent_session(s, p) : p \in V1Sessions \cup V2Sessions }
    \cup { goal_started(s, p) : p \in GoalIndexPayloads }
    \cup { goal_completed(s, p) : p \in GoalIndexPayloads }
    \cup { observation(s, p) : p \in ScreenStates }
    \cup { action_planned(s, p) : p \in AtomicActions }
    \cup { action_completed(s, p) : p \in ActionResults }
    \cup { verification(s, p) : p \in VerificationResults }
    \cup { session_complete(s) }
    \cup { agent_error(s, p) : p \in ErrorPayloads }
    \cup { llm_prompt(s, p) : p \in LlmDebugEvents }
    \cup { llm_response(s, p) : p \in LlmResponseEvents }
    \cup { agent_done(s, "ok"), agent_failed(s, "boom") }
    \cup { handleSubmit(s, "open safari") }
    \cup { selectLlmCall(s, Some(c)) : c \in DOMAIN s.llmCalls }
    \cup { setUseAgentMode(s, b) : b \in BOOLEAN }
    \cup { setUseAgentV2(s, b) : b \in BOOLEAN }

\* C13: no step other than reset and clearLlmCalls takes a key out of
\* llmCalls: whatever listener or store operation runs next, every call id
\* of the map is still a key afterwards.
C13_LlmCallsAppendOnly ==
    \A s1 \in AfterOneStep(store) : DOMAIN store.llmCalls \subseteq DOMAIN s1.llmCalls

\* A second call has just been added next to a call that was answered.
C13_Witness ==
    /\ hist.last = "llm_prompt"
    /\ DOMAIN store.llmCalls = {"c1", "c2"}
    /\ store.llmCalls["c1"].status = "success"
    /\ store.llmCalls["c2"].status = "pending"

\* C14: every key of goalPipelineStates is the id of a goal started by a
\* goal_started event since the last reset.  Only reset removes keys, so
\* this says that no step other than goal_started adds a key to the map.
C14_OnlyGoalStartedCreates ==
    [][ hist'.last # "goal_started" =>
          DOMAIN store'.goalPipelineStates \subseteq DOMAIN store.goalPipelineStates ]_vars

\* The ids of the goals of the current v1 session.
SessionGoalIds ==
    IF store.agentSession = None THEN {}
    ELSE { Get(store.agentSession).goals[i].id :
               i \in DOMAIN Get(store.agentSession).goals }

\* C15: every key of goalPipelineStates is the id of a goal of the current
\* v1 session (none while the session is null).
C15_KeysAreSessionGoals == DOMAIN store.goalPipelineStates \subseteq SessionGoalIds

\* Op applied twice to s gives what one application gives, a store again.
Idempotent(Op(_), s) ==
    /\ DOMAIN Op(s) = DOMAIN s
    /\ Op(Op(s)) = Op(s)

\* Partial pipeline updates as the listeners pass them.
PipelineUpdates ==
    { [step |-> Some("done")],
      [step |-> Some("thinking"), observation |-> Some("Safari window open")],
      [step |-> Some("verifying"), actionResult |-> Some("failed"),
       actionError |-> Some("no such app")],
      [verification |-> Some("looks done"), verified |-> Some(TRUE)],
      FreshEntry }

\* C16: every store mutation succeeds on every reachable store with every
\* payload, and applying it twice in a row with the same payload gives the
\* same store as applying it once.
C16_MutationsIdempotent ==
    /\ \A n \in 0..MaxSteps : Idempotent(LAMBDA s : setPlan(s, LegacyPlan(n)), store)
    /\ \A st \in AppStates : Idempotent(LAMBDA s : setState(s, st), store)
    /\ \A m \in {"", "boom"} : Idempotent(LAMBDA s : setError(s, m), store)
    /\ \A i \in StepIndexes :
          /\ Idempotent(LAMBDA s : setStepIndex(s, i), store)
          /\ Idempotent(LAMBDA s : setDebugLog(s, i, "d2"), store)
    /\ \A p \in V1Sessions : Idempotent(LAMBDA s : setAgentSession(s, p), store)
    /\ \A p \in V2Sessions : Idempotent(LAMBDA s : setAgentSessionV2(s, p), store)
    /\ \A g \in {"g0", "g1", "h0"}, u \in PipelineUpdates :
          Idempotent(LAMBDA s : updateGoalPipeline(s, g, u), store)
    /\ \A d \in DecompositionInfos :
          Idempotent(LAMBDA s : setDecompositionInfo(s, d), store)
    /\ \A e \in LlmDebugEvents : Idempotent(LAMBDA s : addLlmPrompt(s, e), store)
    /\ \A r \in LlmResponseEvents : Idempotent(LAMBDA s : addLlmResponse(s, r), store)
    /\ \A c \in {None} \cup { Some(k) : k \in CallIds } :
          Idempotent(LAMBDA s : selectLlmCall(s, c), store)
    /\ Idempotent(LAMBDA s : clearLlmCalls(s), store)
    /\ Idempotent(LAMBDA s : reset(s), store)

\* The error event came again with the message the store shows already, on
\* a store that holds a session, a pipeline entry and an answered call.
C16_Witness ==
    /\ hist.last = "error"
    /\ store.error = Some("boom")
    /\ setError(store, "boom") = store
    /\ store.agentSession # None
    /\ "g0" \in DOMAIN store.goalPipelineStates
    /\ store.goalPipelineStates["g0"].observation # None
    /\ "c1" \in DOMAIN store.llmCalls
    /\ store.llmCalls["c1"].status = "success"

\* The set calls `calls` of a handler started on s end in the store `result`
\* of the handler's step, and no call before the last makes the store
\* subscriber recompute the layout (the subscriber runs inside each call).
RunsToCompletion(s, calls, result) ==
    /\ Len(calls) >= 1
    /\ calls[Len(calls)] = result
    /\ \A i \in 1..(Len(calls) - 1) :
          ~resetDetected(calls[i], IF i = 1 THEN s ELSE calls[i - 1])

C18_MalformedNotApplied ==
    \A p \in MalformedSessions :
        LET s1 == agent_session(store, p)
        IN  /\ s1.agentSession = store.agentSession
            /\ s1.agentSessionV2 = store.agentSessionV2
            /\ s1.goalPipelineStates = store.goalPipelineStates

\* C19: when the execute_plan invocation started by plan_ready(P) rejects
\* and the store's plan is no longer P (the store was reset, or a later
\* plan_ready replaced P), run-state and error stay as they are.
C19_StaleRejectionIgnored ==
    [][ ( /\ hist'.last = "exec_rejected"
          /\ \E k \in DOMAIN inflight :
                /\ inflight' = RemoveAt(inflight, k)
                /\ store.plan # Some(inflight[k]) )
          => (store'.state = store.state /\ store'.error = store.error) ]_vars

\* The run-state a v2 session status is projected on, from run-state st.
ProjectedV2(st, status) ==
    CASE status = "done" -> "done"
      [] status = "failed" -> "error"
      [] status = "executing" -> "executing"
      [] status = "planning" -> "planning"
      [] status = "idle" -> st

\* C20: on the v2 path the payload becomes agentSessionV2 as a whole and its
\* status is projected on the run-state (done to done, failed to error,
\* executing to executing, planning to planning, idle leaves it); error,
\* plan and llmCalls are unchanged.
C20_V2PathProjectsStatus ==
    \A p \in V2Sessions :
        LET s1 == agent_session(store, p)
        IN  /\ s1.agentSessionV2 = Some(p)
            /\ s1.state = ProjectedV2(store.state, p.state)
            /\ s1.error = store.error
            /\ s1.plan = store.plan
            /\ s1.llmCalls = store.llmCalls

\* A v2 session in state executing has just been stored over a store in
\* run-state error that held a plan, an error and an LLM call.
C20_Witness ==
    /\ hist.last = "agent_session"
    /\ store.agentSessionV2 = Some(V2Session("executing", Some(V2Plan(MaxPlanSteps))))
    /\ store.state = "executing"
    /\ store.error # None
    /\ store.plan # None
    /\ DOMAIN store.llmCalls # {}

\* The pipeline step a v1 session status is projected on, None for the
\* statuses that leave the step alone.
ProjectedStep(status) ==
    CASE status = "observing" -> Some("observing")
      [] status = "thinking" -> Some("thinking")
      [] status = "acting" -> Some("acting")
      [] status = "verifying" -> Some("verifying")
      [] status = "complete" -> Some("done")
      [] status \in {"idle", "decomposing", "error"} -> None

\* Pipeline maps m0 and m1 agree outside goal g.
SameExcept(m0, m1, g) ==
    /\ DOMAIN m1 \ {g} = DOMAIN m0 \ {g}
    /\ \A h \in DOMAIN m0 \ {g} : m1[h] = m0[h]

\* C21: on the v1 path the payload becomes agentSession as a whole; when the
\* cursor points at a goal g and the status is observing, thinking, acting,
\* verifying or complete, the step of g's entry becomes observing, thinking,
\* acting, verifying or done and every other field of the entry is kept; for
\* idle, decomposing and error, and when the cursor points at no goal, the
\* pipeline map is unchanged; the run-state becomes done for complete, error
\* for error and is otherwise unchanged.
C21_V1PathProjectsCursorGoal ==
    \A p \in V1Sessions :
        LET s1 == agent_session(store, p)
            goal == At(p.goals, p.current_goal_index)
            step == ProjectedStep(p.state)
            m0 == store.goalPipelineStates
            m1 == s1.goalPipelineStates
        IN  /\ s1.agentSession = Some(p)
            /\ IF goal # None /\ step # None
               THEN LET g == Get(goal).id
                    IN  /\ g \in DOMAIN m1
                        /\ m1[g].step = step
                        /\ \A f \in PipelineFields \ {"step"} :
                              m1[g][f] = EntryOf(store, g)[f]
                        /\ SameExcept(m0, m1, g)
               ELSE m1 = m0
            /\ s1.state = (IF p.state = "complete" THEN "done"
                           ELSE IF p.state = "error" THEN "error"
                           ELSE store.state)

\* A v1 session in status observing has just been stored while the entry of
\* its current goal already held an observation: the step is back at
\* observing and the observation is still there.
C21_Witness ==
    /\ hist.last = "agent_session"
    /\ store.agentSession = Some(V1Session(ProgressGoals(MaxGoals, 0), 0, "observing"))
    /\ "g0" \in DOMAIN store.goalPipelineStates
    /\ store.goalPipelineStates["g0"].step = Some("observing")
    /\ store.goalPipelineStates["g0"].observation # None

\* C22: the step that reconciles plan_ready(P) leaves the plan P and the
\* run-state executing and starts one execute_plan invocation, with P; the
\* step in which that invocation rejects with err leaves run-state error and
\* error String(err) and nothing else changed; the step in which it resolves
\* changes nothing in the store.
C22_PlanReadyExecutesOnce ==
    [][ /\ hist'.last = "plan_ready" =>
              /\ store'.plan # None
              /\ store'.state = "executing"
              /\ inflight' = Append(inflight, Get(store'.plan))
              /\ \A f \in DOMAIN store \ {"plan", "state"} : store'[f] = store[f]
        /\ hist'.last = "exec_rejected" =>
              /\ store'.state = "error"
              /\ \E err \in Errs : store'.error = Some(StringOf(err))
              /\ \A f \in DOMAIN store \ {"state", "error"} : store'[f] = store[f]
              /\ Len(inflight') = Len(inflight) - 1
        /\ hist'.last = "exec_resolved" =>
              /\ store' = store
              /\ Len(inflight') = Len(inflight) - 1 ]_vars

\* The invocation of a loaded plan has just been rejected with `denied`.
C22_Witness ==
    /\ hist.last = "exec_rejected"
    /\ store.plan = Some(LegacyPlan(MaxSteps))
    /\ store.state = "error"
    /\ store.error = Some(StringOf([text |-> "denied"]))
    /\ inflight = <<>>

\* Store s with run-state done and nothing else changed.
AsDone(s) == [s EXCEPT !.state = "done"]

\* Store s with run-state error and error m, nothing else changed.
AsError(s, m) == [s EXCEPT !.state = "error", !.error = Some(m)]

\* C23: execution_done(success), session_complete and agent_done set the
\* run-state done and leave the error; execution_done(failure, m) sets
\* run-state error with error m, or "Execution failed" when m is missing or
\* empty; error(m), agent_error(m) and agent_failed(m) set run-state error
\* with error m; no other store field changes.
C23_TerminalEventsProject ==
    /\ \A m \in {None, Some(""), Some("boom")} :
          /\ execution_done(store, [success |-> TRUE, message |-> m]) = AsDone(store)
          /\ execution_done(store, [success |-> FALSE, message |-> m])
                = AsError(store, IF m \in {None, Some("")}
                                 THEN "Execution failed" ELSE Get(m))
    /\ session_complete(store) = AsDone(store)
    /\ \A m \in Messages :
          /\ agent_done(store, m) = AsDone(store)
          /\ error(store, [message |-> m]) = AsError(store, m)
          /\ agent_error(store, [message |-> m]) = AsError(store, m)
          /\ agent_failed(store, m) = AsError(store, m)

\* execution_done has just reported a failure without a usable message on a
\* store that holds both sessions, a pipeline entry and an LLM call.
C23_Witness ==
    /\ hist.last = "execution_done"
    /\ store.state = "error"
    /\ store.error = Some("Execution failed")
    /\ store.agentSession # None
    /\ store.agentSessionV2 # None
    /\ store.goalPipelineStates # EmptyMap
    /\ store.llmCalls # EmptyMap

\* Store s1 differs from store s0 at most in the fields `written` of the
\* pipeline entry of the goal at s0's cursor, which hold the values of
\* `written`; without a goal at the cursor s1 is s0.
WritesOnly(s0, s1, written) ==
    LET goalId == getCurrentGoalId(s0)
    IN  IF goalId = None THEN s1 = s0
        ELSE LET g == Get(goalId)
             IN  /\ \A f \in DOMAIN s0 \ {"goalPipelineStates"} : s1[f] = s0[f]
                 /\ SameExcept(s0.goalPipelineStates, s1.goalPipelineStates, g)
                 /\ g \in DOMAIN s1.goalPipelineStates
                 /\ \A f \in PipelineFields :
                       s1.goalPipelineStates[g][f] =
                           IF f \in DOMAIN written THEN written[f] ELSE EntryOf(s0, g)[f]

\* C24: each pipeline event writes only its own fields of the entry of the
\* goal at the v1 cursor: observation writes step and observation;
\* action_planned writes step, actionType, actionParams and actionRationale;
\* action_completed writes step, actionResult and actionError; verification
\* writes verification and verified and not step.  The other fields of the
\* entry, the other goals' entries and every other store field are unchanged.
C24_PipelineEventsWriteOwnFields ==
    /\ \A p \in ScreenStates :
          WritesOnly(store, observation(store, p),
                     [ step |-> Some("thinking"), observation |-> Some(p.description) ])
    /\ \A p \in AtomicActions :
          WritesOnly(store, action_planned(store, p),
                     [ step |-> Some("acting"),
                       actionType |-> Some(p.action_type),
                       actionParams |-> Some(formatParams(p.params)),
                       actionRationale |-> Some(p.rationale) ])
    /\ \A p \in ActionResults :
          WritesOnly(store, action_completed(store, p),
                     [ step |-> Some("verifying"),
                       actionResult |-> Some(IF p.success THEN "success" ELSE "failed"),
                       actionError |-> p.error_message ])
    /\ \A p \in VerificationResults :
          WritesOnly(store, verification(store, p),
                     [ verification |-> Some(p.observation),
                       verified |-> Some(p.goal_achieved) ])

\* verification has just been reconciled for the second goal after a whole
\* cycle, while the first goal has an entry of its own: the step is still
\* the one action_completed left.
C24_Witness ==
    /\ hist.last = "verification"
    /\ getCurrentGoalId(store) = Some("g1")
    /\ {"g0", "g1"} \subseteq DOMAIN store.goalPipelineStates
    /\ store.goalPipelineStates["g1"].step = Some("verifying")
    /\ store.goalPipelineStates["g1"].observation # None
    /\ store.goalPipelineStates["g1"].actionType # None
    /\ store.goalPipelineStates["g1"].actionError # None
    /\ store.goalPipelineStates["g1"].verified = Some(TRUE)
    /\ store.goalPipelineStates["g0"].observation # None

C26_UnresolvedEventsChangeNothing ==
    /\ [] /\ \A i \in StepIndexes :
                step_completed(store, [stepIndex |-> i, success |-> TRUE]) = store
          /\ \A p \in GoalIndexPayloads :
                goalIdAt(store, p.goalIndex) = None =>
                    /\ goal_started(store, p) = store
                    /\ goal_completed(store, p) = store
                    /\ scheduledByGoalIndex(store, p) = 0
          /\ getCurrentGoalId(store) = None =>
                /\ \A p \in ScreenStates : observation(store, p) = store
                /\ \A p \in AtomicActions : action_planned(store, p) = store
                /\ \A p \in ActionResults : action_completed(store, p) = store
                /\ \A p \in VerificationResults : verification(store, p) = store
    /\ [][ /\ hist'.last \in {"tool_result", "goals_ready"} => store' = store
           /\ ( /\ hist'.last \in {"goal_started", "goal_completed"}
                /\ \A p \in GoalIndexPayloads : goalIdAt(store, p.goalIndex) = None )
                 => (store' = store /\ timers' = timers)
           /\ ( /\ hist'.last \in {"observation", "action_planned",
                                   "action_completed", "verification"}
                /\ getCurrentGoalId(store) = None )
                 => (store' = store /\ timers' = timers) ]_vars

\* An observation has just been reconciled while the cursor of the v1
\* session is past its goals: the pipeline entries made earlier are there
\* and no timer is pending.
C26_Witness ==
    /\ hist.last = "observation"
    /\ store.agentSession # None
    /\ getCurrentGoalId(store) = None
    /\ store.goalPipelineStates # EmptyMap
    /\ timers = 0

\* Layout mode (1) as the claim words it: v2 mode is on and the v2 session
\* has a plan.
V2PlanExists(s) ==
    /\ s.useAgentV2
    /\ s.agentSessionV2 # None
    /\ Get(s.agentSessionV2).plan # None

\* C27: the height a recomputation has just applied is, when v2 mode is on
\* and a v2 plan exists, 88 + 48 per v2 plan step + 48 if the v2 status is
\* done or failed + 24 if it is executing, whatever the run-state; otherwise
\* (also when v2 mode is on and the v2 session has no plan) it is the height
\* the legacy and v1 rules give.
C27_V2LayoutOnlyWithPlan ==
    hist.last = "timer" =>
        IF V2PlanExists(store)
        THEN LET v2 == Get(store.agentSessionV2)
             IN  window.height =
                     INPUT_HEIGHT + Len(Get(v2.plan).steps) * STEP_HEIGHT
                       + (IF v2.state \in {"done", "failed"} THEN STEP_HEIGHT ELSE 0)
                       + (IF v2.state = "executing" THEN STEP_COUNTER_HEIGHT ELSE 0)
        ELSE window.height = windowHeight([store EXCEPT !.agentSessionV2 = None])

\* C28: when v2 mode is off or there is no v2 session, the height is 88 + 48
\* in run-state planning or error, and 88 + 48 per legacy plan step (+ 48
\* when done) in run-state executing or done, whatever useAgentMode and the
\* v1 goals are.
C28_LegacyRowsByRunState ==
    ~(store.useAgentV2 /\ store.agentSessionV2 # None) =>
        /\ store.state \in {"planning", "error"} =>
               windowHeight(store) = INPUT_HEIGHT + STEP_HEIGHT
        /\ store.state \in {"executing", "done"} =>
               windowHeight(store) =
                   INPUT_HEIGHT + Len(legacyStepsOf(store)) * STEP_HEIGHT
                     + (IF store.state = "done" THEN STEP_HEIGHT ELSE 0)

RECURSIVE SumSeq(_)
SumSeq(seq) == IF Len(seq) = 0 THEN 0 ELSE Head(seq) + SumSeq(Tail(seq))

\* The stores one more decomposition or v1 session event leads to from s.
WithLayoutEvents(s) ==
    LET sessions == {s} \cup { agent_session(s, v) : v \in CycleSessions \cup EndedSessions }
    IN  sessions \cup { decomposition(x, d) : x \in sessions, d \in DecompositionInfos }

\* The number of fields among observation, actionType, actionResult and
\* verification that entry e holds (a non-empty value).
PresentRows(e) ==
    Cardinality({ f \in {"observation", "actionType", "actionResult", "verification"} :
                      Truthy(e[f]) })

\* C29: when the v1 goal rule is the one selected (v1 mode on, at least one
\* goal), the height is 88 + 56 if decomposition info is present + for each
\* goal 48 + 22 * (1 + number of present fields among observation,
\* actionType, actionResult, verification) + 20 when the goal has an entry and
\* is current and in progress, completed or failed, and 48 otherwise + 48 if
\* the v1 session status is complete or error.
C29_GoalLayoutHeight ==
    \A s \in WithLayoutEvents(store) :
        ( /\ ~(s.useAgentV2 /\ s.agentSessionV2 # None)
          /\ s.state # "planning"
          /\ s.useAgentMode
          /\ s.agentSession # None
          /\ Len(Get(s.agentSession).goals) > 0 ) =>
            LET session == Get(s.agentSession)
                shown(i) ==
                    /\ session.goals[i].id \in DOMAIN s.goalPipelineStates
                    /\ \/ /\ i - 1 = session.current_goal_index
                          /\ session.goals[i].status = "in_progress"
                       \/ session.goals[i].status \in {"completed", "failed"}
                rows == [i \in 1..Len(session.goals) |->
                            IF shown(i)
                            THEN 48 + 22 * (1 + PresentRows(s.goalPipelineStates[session.goals[i].id])) + 20
                            ELSE 48]
            IN  windowHeight(s) =
                    88 + (IF s.decompositionInfo # None THEN 56 ELSE 0)
                       + SumSeq(rows)
                       + (IF session.state \in {"complete", "error"} THEN 48 ELSE 0)

\* A recomputation has just applied the height of two goals with entries:
\* the first completed with four fields, the second current with one.
C29_Witness ==
    /\ hist.last = "timer"
    /\ store.agentSession = Some(V1Session(ProgressGoals(MaxGoals, 1), 1, "idle"))
    /\ {"g0", "g1"} \subseteq DOMAIN store.goalPipelineStates
    /\ PresentRows(store.goalPipelineStates["g0"]) = 4
    /\ PresentRows(store.goalPipelineStates["g1"]) = 1
    /\ window.height = 88 + (48 + 22 * 5 + 20) + (48 + 22 * 2 + 20)

\* C30: a recomputation whose setSize fails leaves the store as it was
\* before the recomputation (run-state, error and both sessions included);
\* after a reset the store it leaves is the reset one.
C30_ResizeFailureLeavesStore ==
    [][ hist'.resize = "failed" =>
          /\ hist'.last = "timer" => store' = store
          /\ hist'.last = "reset" => store' = reset(store)
          /\ hist'.last \in {"timer", "reset"} ]_vars

\* A recomputation has just failed for a store with a v2 session in
\* run-state executing: no error is set and the window still has the size of
\* an earlier store.
C30_Witness ==
    /\ hist.last = "timer"
    /\ hist.resize = "failed"
    /\ store.state = "executing"
    /\ store.error = None
    /\ store.agentSessionV2 # None
    /\ window # windowSize(store)

\* C31: the recomputations scheduled by a burst of events are coalesced
\* into one: when a recomputation runs, no other recomputation scheduled
\* before it is left to run (the burst resizes the window once, from the
\* store after its last event).
C31_BurstResizesOnce ==
    [][ hist'.last = "timer" =>
          (timers' = 0 /\ window' = windowSize(store)) ]_vars

\* The text the claim gives for the parameter records outside the union.
ExpectedUntypedText(params) ==
    CASE params = [app_name |-> "Safari", text |-> "hi"] -> "Safari"
      [] params = [text |-> "hi", key |-> "c"] -> "\"hi\""
      [] params = [key |-> "c", x |-> 1, y |-> 2] -> "c"
      [] params = [x |-> 1, y |-> 2, ms |-> 5] -> "(1, 2)"
      [] params = [ms |-> 5, element |-> "OK button"] -> "5ms"
      [] params = [x |-> 1, element |-> "OK button"] -> "OK button"
      [] params = [x |-> 1] -> ""
      [] params = [button |-> "left"] -> ""

\* C32: the actionParams text action_planned writes is that of the first
\* matching tag in the order app_name, text, key, (x and y), ms, element: the
\* app name; the text in double quotes; the modifiers joined by + and then
\* + and the key, or the key alone without modifiers; "(x, y)"; "<ms>ms"; the
\* element description; the empty string when no tag matches.
C32_ParamsTextByFirstTag ==
    getCurrentGoalId(store) # None =>
        LET g == Get(getCurrentGoalId(store))
            text(a) == action_planned(store, a).goalPipelineStates[g].actionParams
        IN  /\ \A a \in AtomicActions : text(a) = Some(ExpectedParamsText(a.params))
            /\ \A a \in UntypedActions : text(a) = Some(ExpectedUntypedText(a.params))

\* action_planned has just written the text of a key press with two
\* modifiers.
C32_Witness ==
    /\ hist.last = "action_planned"
    /\ "g0" \in DOMAIN store.goalPipelineStates
    /\ store.goalPipelineStates["g0"].actionParams = Some("cmd+shift+c")
    /\ store.goalPipelineStates["g0"].step = Some("acting")

\* C33: once decompositionInfo is set, a later decomposition event leaves
\* it as it is (until reset).
C33_DecompositionWriteOnce ==
    [][ (store.decompositionInfo # None /\ hist'.last = "decomposition")
          => store'.decompositionInfo = store.decompositionInfo ]_vars

\* C34: from every store, a decomposition event and an agent_session event
\* reconciled in either order give the same store.
C34_DecompositionCommutesWithSession ==
    \A d \in DecompositionInfos, v \in V1Sessions \cup V2Sessions :
        agent_session(decomposition(store, d), v)
            = decomposition(agent_session(store, v), d)

\* The decomposition info has just arrived after the goals of the session.
C34_Witness ==
    /\ hist.last = "decomposition"
    /\ store.agentSession = Some(V1Session(ProgressGoals(MaxGoals, 0), 0, "observing"))
    /\ store.goalPipelineStates # EmptyMap
    /\ store.decompositionInfo = Some([method |-> "llm", pattern_name |-> None,
                                       original_command |-> "cmd"])

\* pending, then in_progress, then completed or failed.
StatusRank(status) ==
    CASE status = "pending" -> 0
      [] status = "in_progress" -> 1
      [] status \in {"completed", "failed"} -> 2

OnlyCallChanged(s0, s1, id) ==
    /\ \A f \in DOMAIN s0 \ {"llmCalls"} : s1[f] = s0[f]
    /\ DOMAIN s1.llmCalls \ {id} = DOMAIN s0.llmCalls \ {id}
    /\ \A c \in DOMAIN s0.llmCalls \ {id} : s1.llmCalls[c] = s0.llmCalls[c]

\* C36: after addLlmPrompt(e) the entry of e.call_id is id, type, model,
\* prompt and timestamp of e with status pending and no response field,
\* whatever was there; after addLlmResponse(r) for an existing id the entry
\* keeps id, type, model, prompt and timestamp, takes raw_response,
\* parsed_result, duration_ms, success and error from r and has status
\* success when r.success and error otherwise; the other entries and the
\* selected call are unchanged.
C36_LlmEntryContents ==
    /\ \A e \in LlmDebugEvents :
          LET s1 == llm_prompt(store, e)
          IN  /\ OnlyCallChanged(store, s1, e.call_id)
              /\ e.call_id \in DOMAIN s1.llmCalls
              /\ s1.llmCalls[e.call_id] =
                     [ id |-> e.call_id, type |-> e.call_type, model |-> e.model,
                       prompt |-> e.prompt, timestamp |-> e.timestamp,
                       status |-> "pending",
                       raw_response |-> None, parsed_result |-> None,
                       duration_ms |-> None, success |-> None, error |-> None ]
    /\ \A r \in LlmResponseEvents :
          r.call_id \in DOMAIN store.llmCalls =>
              LET s1 == llm_response(store, r)
                  before == store.llmCalls[r.call_id]
                  after == s1.llmCalls[r.call_id]
              IN  /\ OnlyCallChanged(store, s1, r.call_id)
                  /\ \A f \in {"id", "type", "model", "prompt", "timestamp"} :
                        after[f] = before[f]
                  /\ after.raw_response = Some(r.raw_response)
                  /\ after.parsed_result = r.parsed_result
                  /\ after.duration_ms = Some(r.duration_ms)
                  /\ after.success = Some(r.success)
                  /\ after.error = r.error
                  /\ after.status = (IF r.success THEN "success" ELSE "error")

\* A failed response has just been merged into the entry of c1 while c2 is
\* pending and selected.
C36_Witness ==
    /\ hist.last = "llm_response"
    /\ DOMAIN store.llmCalls = {"c1", "c2"}
    /\ store.llmCalls["c1"].status = "error"
    /\ store.llmCalls["c1"].error = Some("timeout")
    /\ store.llmCalls["c1"].prompt = "p2"
    /\ store.llmCalls["c2"].status = "pending"
    /\ store.selectedLlmCall = Some("c2")

\* C37: a plan that arrives replaces the legacy session as a whole: after
\* plan_ready(P) over an earlier plan the cursor is 0 and no annotation of
\* the earlier plan is left, and whenever a plan with n > 0 steps is loaded
\* the cursor is in 0..n-1.
C37_PlanReadyStartsAfresh ==
    /\ [](store.plan # None /\ Len(Get(store.plan).steps) > 0
            => store.currentStepIndex \in 0..(Len(Get(store.plan).steps) - 1))
    /\ [][ (hist'.last = "plan_ready" /\ store.plan # None) =>
              /\ store'.currentStepIndex = 0
              /\ store'.debugLogs = EmptyMap ]_vars

\* C38: when the llm_prompt and the llm_response of one call id are both
\* reconciled, in either order and with no reset or clearLlmCalls in between,
\* the entry of that id ends with status success or error.
C38_EitherOrderSettles ==
    \A e \in LlmDebugEvents, r \in LlmResponseEvents :
        e.call_id = r.call_id =>
            LET promptFirst == llm_response(llm_prompt(store, e), r)
                responseFirst == llm_prompt(llm_response(store, r), e)
            IN  /\ promptFirst.llmCalls[e.call_id].status \in {"success", "error"}
                /\ responseFirst.llmCalls[e.call_id].status \in {"success", "error"}

\* C39: every entry of goalPipelineStates has a step among observing,
\* thinking, acting, verifying and done.
C39_EntriesHaveStep ==
    \A g \in DOMAIN store.goalPipelineStates :
        store.goalPipelineStates[g].step \in
            { Some(st) : st \in {"observing", "thinking", "acting", "verifying", "done"} }

\* C40: with selectLlmCall invoked only for a listed call, selectedLlmCall is
\* null or a key of llmCalls in every reachable state.
C40_SelectionIsListed ==
    \/ store.selectedLlmCall = None
    \/ Get(store.selectedLlmCall) \in DOMAIN store.llmCalls

\* A call is selected and listed, and a later prompt has just added a
\* second call to the list.
C40_Witness ==
    /\ hist.last = "llm_prompt"
    /\ store.selectedLlmCall # None
    /\ Get(store.selectedLlmCall) \in DOMAIN store.llmCalls
    /\ DOMAIN store.llmCalls = CallIds

====
